---- MODULE Spec2Model ----
(***************************************************************************)
(* AgriBot ESP32 firmware (esp32/AgriBot_ESP32): the serial command        *)
(* dispatcher and the actuator controllers it drives.                      *)
(*                                                                         *)
(* Conventions                                                             *)
(*  - Every C++ method is an operator from a world record w (all object    *)
(*    fields, pins, clock, serial output) to the world after the call, so  *)
(*    that handlers compose the calls in the order the code makes them.    *)
(*  - millis() is a 32-bit unsigned counter, kept as <<hi, lo>> 16-bit     *)
(*    halves; differences are taken modulo 2^32 as the code's unsigned     *)
(*    arithmetic does.                                                     *)
(*  - Lengths are fixed point: positions in nanometres, distances in       *)
(*    1/1000 cm.                                                           *)
(*  - Serial output is the sequence of lines written while the most        *)
(*    recent command was processed (diagnostic lines included).            *)
(***************************************************************************)
EXTENDS Integers, Sequences, FiniteSets, TLC

VARIABLES
    \* DualMotorController
    direction, targetSpeed, currentSpeedL, currentSpeedR, trimOffset, lastAccelTime,
    \* analogWrite / digitalWrite levels of the output pins
    pin,
    \* MotorZ, MotorY, Pump, BuzzerController
    encoderEnabled, moving, pumpIsOn, buzzerIsOn,
    \* ObstacleAvoidance
    enabled, thresholdCm, lastCheckTime,
    \* UltrasonicSensors
    lastFront, lastRight, lastY,
    \* MotorEncoder, its two input levels and its interrupt line
    pulseCount, lastStateA, levelA, levelB, intEnabled, intPending,
    \* EEPROM cell holding the trim
    eeprom,
    \* millis()
    now,
    \* Serial output of the command being processed, and that command
    out, lastCmd,
    \* position of the main flow inside a blocking call, with its locals
    pc, targetNM, startTime, caller, delayMs, after,
    \* encoder access in progress: operation, argument, local halves, result
    encOp, encArg, loHalf, hiHalf, encRet,
    \* environment of a closed-loop move
    encMode, edgesInDelay,
    \* history, not program state: elapsed time when moveToCM returned, whether
    \* a Z pin was energized by the command, values the counter held during an
    \* access, edges since the last reset, remaining model time and edges, and
    \* what was active when the latest call began
    elapsedAtEnd, zRan, heldValues, base, fwdEdges, revEdges, budget, before,
    \* history of the trim: the value last saved, whether another value has
    \* been set since, whether loadTrim has run since
    trimLog,
    \* history of the drive: the public operation called last
    lastCall,
    \* history of an avoidance manoeuvre: the drive pins and the direction held
    \* through each of its blocking delays
    phases,
    \* locals of MotorY::moveToHeight while it runs: targetCm (in 1/1000 cm)
    \* and attempts
    targetHeight, attempts,
    \* history of the pins: while it is on, the levels of all pins after each
    \* analogWrite / digitalWrite of the operation that ran last, in order
    pinLog

vars ==
    <<direction, targetSpeed, currentSpeedL, currentSpeedR, trimOffset, lastAccelTime, pin,
      encoderEnabled, moving, pumpIsOn, buzzerIsOn, enabled, thresholdCm, lastCheckTime,
      lastFront, lastRight, lastY, pulseCount, lastStateA, levelA, levelB, intEnabled,
      intPending, eeprom, now, out, lastCmd, pc, targetNM, startTime, caller, delayMs, after,
      encOp, encArg, loHalf, hiHalf, encRet, encMode, edgesInDelay, elapsedAtEnd, zRan,
      heldValues, base, fwdEdges, revEdges, budget, before, trimLog, lastCall, phases,
      targetHeight, attempts, pinLog>>

----------------------------------------------------------------------------
\* Program constants

MOTOR_DEFAULT_SPEED == 100
MOTOR_ACCEL_STEP == 5
MOTOR_ACCEL_DELAY == 20
MOTOR_Z_SPEED == 200
MOTOR_Y_SPEED == 200
MOTOR_Y_UP_TIMEOUT == 3000
MOTOR_Y_DOWN_TIMEOUT == 3000
MOTOR_Z_POSITION_TOLERANCE == 2
MOTOR_Z_TIMEOUT_MS == 10000
OBSTACLE_THRESHOLD_CM == 30
EEPROM_TRIM_BIAS == 50
MoveToCMDelay == 10
BUZZER_DEFAULT_DUR == 100
AVOID_TURN_DURATION_MS == 500
AVOID_BACKUP_DURATION_MS == 300
AVOID_CHECK_INTERVAL_MS == 100

\* MM_PER_PULSE = PI * 30.0 / (20 * 1.0) mm, in nanometres
MM_PER_PULSE_NM == 4712389
NM_PER_MM == 1000 * 1000

PinNames == {"L_IN1", "L_IN2", "R_IN3", "R_IN4", "Z_IN1", "Z_IN2", "Y_IN1", "Y_IN2",
             "PUMP_RELAY", "BUZZER"}

----------------------------------------------------------------------------
\* Arduino helpers

constrain(x, lo, hi) == IF x < lo THEN lo ELSE IF x > hi THEN hi ELSE x

Abs(x) == IF x < 0 THEN -x ELSE x

Min(a, b) == IF a < b THEN a ELSE b

Max(a, b) == IF a > b THEN a ELSE b

\* unsigned long arithmetic on <<hi, lo>> halves
ClockAdd(t, ms) ==
    LET s == t[2] + ms IN <<(t[1] + (s \div 65536)) % 65536, s % 65536>>

\* faulty variant of the unsigned difference: 0 when the clock reads below b
ClockDiff_NoWrap(a, b) ==
    IF a[1] < b[1] \/ (a[1] = b[1] /\ a[2] < b[2]) THEN <<0, 0>>
    ELSE <<a[1] - b[1] - (IF a[2] < b[2] THEN 1 ELSE 0), (a[2] - b[2] + 65536) % 65536>>

ClockDiff(a, b) ==
    LET borrow == IF a[2] < b[2] THEN 1 ELSE 0
    IN  <<(a[1] - b[1] - borrow + 2 * 65536) % 65536, (a[2] - b[2] + 65536) % 65536>>

ClockLess(d, n) == d[1] = 0 /\ d[2] < n

\* faulty variant of the unsigned comparison: >= for >
ClockGreater_OrEqual(d, n) == d[1] > 0 \/ d[2] >= n

ClockGreater(d, n) == d[1] > 0 \/ d[2] > n

\* The world as one record, and its write-back
World ==
    [direction |-> direction, targetSpeed |-> targetSpeed, currentSpeedL |-> currentSpeedL,
     currentSpeedR |-> currentSpeedR, trimOffset |-> trimOffset,
     lastAccelTime |-> lastAccelTime, pin |-> pin, encoderEnabled |-> encoderEnabled,
     moving |-> moving, pumpIsOn |-> pumpIsOn, buzzerIsOn |-> buzzerIsOn,
     enabled |-> enabled, thresholdCm |-> thresholdCm, lastCheckTime |-> lastCheckTime,
     lastFront |-> lastFront, lastRight |-> lastRight, lastY |-> lastY,
     pulseCount |-> pulseCount, lastStateA |-> lastStateA, levelA |-> levelA,
     levelB |-> levelB, intEnabled |-> intEnabled, intPending |-> intPending,
     eeprom |-> eeprom, now |-> now, out |-> out, lastCmd |-> lastCmd, pc |-> pc,
     targetNM |-> targetNM, startTime |-> startTime, caller |-> caller, delayMs |-> delayMs,
     after |-> after, encOp |-> encOp, encArg |-> encArg, loHalf |-> loHalf, hiHalf |-> hiHalf,
     encRet |-> encRet, encMode |-> encMode, edgesInDelay |-> edgesInDelay,
     elapsedAtEnd |-> elapsedAtEnd, zRan |-> zRan, heldValues |-> heldValues, base |-> base,
     fwdEdges |-> fwdEdges, revEdges |-> revEdges, budget |-> budget, before |-> before,
     trimLog |-> trimLog, lastCall |-> lastCall, phases |-> phases,
     targetHeight |-> targetHeight, attempts |-> attempts, pinLog |-> pinLog]

Commit(w) ==
    /\ direction' = w.direction
    /\ targetSpeed' = w.targetSpeed
    /\ currentSpeedL' = w.currentSpeedL
    /\ currentSpeedR' = w.currentSpeedR
    /\ trimOffset' = w.trimOffset
    /\ lastAccelTime' = w.lastAccelTime
    /\ pin' = w.pin
    /\ encoderEnabled' = w.encoderEnabled
    /\ moving' = w.moving
    /\ pumpIsOn' = w.pumpIsOn
    /\ buzzerIsOn' = w.buzzerIsOn
    /\ enabled' = w.enabled
    /\ thresholdCm' = w.thresholdCm
    /\ lastCheckTime' = w.lastCheckTime
    /\ lastFront' = w.lastFront
    /\ lastRight' = w.lastRight
    /\ lastY' = w.lastY
    /\ pulseCount' = w.pulseCount
    /\ lastStateA' = w.lastStateA
    /\ levelA' = w.levelA
    /\ levelB' = w.levelB
    /\ intEnabled' = w.intEnabled
    /\ intPending' = w.intPending
    /\ eeprom' = w.eeprom
    /\ now' = w.now
    /\ out' = w.out
    /\ lastCmd' = w.lastCmd
    /\ pc' = w.pc
    /\ targetNM' = w.targetNM
    /\ startTime' = w.startTime
    /\ caller' = w.caller
    /\ delayMs' = w.delayMs
    /\ after' = w.after
    /\ encOp' = w.encOp
    /\ encArg' = w.encArg
    /\ loHalf' = w.loHalf
    /\ hiHalf' = w.hiHalf
    /\ encRet' = w.encRet
    /\ encMode' = w.encMode
    /\ edgesInDelay' = w.edgesInDelay
    /\ elapsedAtEnd' = w.elapsedAtEnd
    /\ zRan' = w.zRan
    /\ heldValues' = w.heldValues
    /\ base' = w.base
    /\ fwdEdges' = w.fwdEdges
    /\ revEdges' = w.revEdges
    /\ budget' = w.budget
    /\ before' = w.before
    /\ trimLog' = w.trimLog
    /\ lastCall' = w.lastCall
    /\ phases' = w.phases
    /\ targetHeight' = w.targetHeight
    /\ attempts' = w.attempts
    /\ pinLog' = w.pinLog

analogWrite(w, p, v) ==
    LET levels == [w.pin EXCEPT ![p] = v]
    IN  [w EXCEPT !.pin = levels,
                  !.pinLog.seen = IF w.pinLog.on THEN Append(@, levels) ELSE @]

\* One line of serial output: its fixed text, its numbers, and any echoed command text
EmptyText == [segs |-> <<>>, word |-> "", num |-> <<>>, pad |-> FALSE]

Line(t, v, x) == [t |-> t, v |-> v, x |-> x]

Msg(t) == Line(t, <<>>, EmptyText)

Val(t, n) == Line(t, <<n>>, EmptyText)

Println(w, line) == [w EXCEPT !.out = Append(@, line)]

----------------------------------------------------------------------------
\* DualMotorController (dual_motor.cpp)

forward(w) == [w EXCEPT !.direction = 1, !.targetSpeed = MOTOR_DEFAULT_SPEED]

backward(w) == [w EXCEPT !.direction = -1, !.targetSpeed = MOTOR_DEFAULT_SPEED]

stop(w) == [w EXCEPT !.direction = 0, !.targetSpeed = 0]

\* faulty variant of emergencyStop: a graceful stop that leaves the ramp and the pins
emergencyStop_Graceful(w) == Println(stop(w), Msg("Emergency Stop!"))

emergencyStop(w) ==
    LET w1 == [w EXCEPT !.direction = 0, !.targetSpeed = 0,
                        !.currentSpeedL = 0, !.currentSpeedR = 0]
        w2 == analogWrite(analogWrite(analogWrite(analogWrite(w1,
                  "L_IN1", 0), "L_IN2", 0), "R_IN3", 0), "R_IN4", 0)
    IN  Println(w2, Msg("Emergency Stop!"))

\* faulty variant of setMotorL: the pin of the other direction is left alone
setMotorL_KeepsOther(w, speed) ==
    LET absSpeed == constrain(Abs(speed), 0, 255)
    IN  IF speed > 0 THEN analogWrite(w, "L_IN1", absSpeed)
        ELSE IF speed < 0 THEN analogWrite(w, "L_IN2", absSpeed)
        ELSE analogWrite(analogWrite(w, "L_IN1", 0), "L_IN2", 0)

setMotorL(w, speed) ==
    LET absSpeed == constrain(Abs(speed), 0, 255)
    IN  IF speed > 0 THEN analogWrite(analogWrite(w, "L_IN1", absSpeed), "L_IN2", 0)
        ELSE IF speed < 0 THEN analogWrite(analogWrite(w, "L_IN1", 0), "L_IN2", absSpeed)
        ELSE analogWrite(analogWrite(w, "L_IN1", 0), "L_IN2", 0)

setMotorR(w, speed) ==
    LET absSpeed == constrain(Abs(speed), 0, 255)
    IN  IF speed > 0 THEN analogWrite(analogWrite(w, "R_IN3", absSpeed), "R_IN4", 0)
        ELSE IF speed < 0 THEN analogWrite(analogWrite(w, "R_IN3", 0), "R_IN4", absSpeed)
        ELSE analogWrite(analogWrite(w, "R_IN3", 0), "R_IN4", 0)

\* C++ integer division truncates toward zero
CDiv(a, b) == IF a >= 0 THEN a \div b ELSE -((-a) \div b)

turnLeft(w) ==
    setMotorR(setMotorL(w, CDiv(-MOTOR_DEFAULT_SPEED, 2)), CDiv(MOTOR_DEFAULT_SPEED, 2))

turnRight(w) ==
    setMotorR(setMotorL(w, CDiv(MOTOR_DEFAULT_SPEED, 2)), CDiv(-MOTOR_DEFAULT_SPEED, 2))

curveLeft(w) ==
    setMotorR(setMotorL(w, CDiv(MOTOR_DEFAULT_SPEED, 3)), MOTOR_DEFAULT_SPEED)

curveRight(w) ==
    setMotorR(setMotorL(w, MOTOR_DEFAULT_SPEED), CDiv(MOTOR_DEFAULT_SPEED, 3))

\* faulty variant of setSpeed: any speed above 0 turns the drive forward
setSpeed_Forward(w, speed) ==
    LET w1 == [w EXCEPT !.targetSpeed = constrain(speed, 0, 255)]
    IN  IF speed > 0 THEN [w1 EXCEPT !.direction = 1] ELSE w1

\* faulty variant of setSpeed: the speed is taken as given
setSpeed_Unclamped(w, speed) ==
    LET w1 == [w EXCEPT !.targetSpeed = speed]
    IN  IF w1.direction = 0 /\ speed > 0 THEN [w1 EXCEPT !.direction = 1] ELSE w1

setSpeed(w, speed) ==
    LET w1 == [w EXCEPT !.targetSpeed = constrain(speed, 0, 255)]
    IN  IF w1.direction = 0 /\ speed > 0 THEN [w1 EXCEPT !.direction = 1] ELSE w1

setSpeedSmooth(w, speed) == [w EXCEPT !.targetSpeed = constrain(speed, 0, 255)]

\* faulty variant of setTrim: the offset is taken as given
setTrim_Unclamped(w, offset) ==
    LET w1 == [w EXCEPT !.trimOffset = offset]
        w2 == [w1 EXCEPT !.trimLog.loaded = FALSE,
                         !.trimLog.changed = @ \/ (w.trimLog.saved # <<>>
                                                    /\ w.trimLog.saved # <<w1.trimOffset>>)]
    IN  Println(w2, Val("Trim set to: ", w2.trimOffset))

setTrim(w, offset) ==
    LET w1 == [w EXCEPT !.trimOffset = constrain(offset, -50, 50)]
        w2 == [w1 EXCEPT !.trimLog.loaded = FALSE,
                         !.trimLog.changed = @ \/ (w.trimLog.saved # <<>>
                                                    /\ w.trimLog.saved # <<w1.trimOffset>>)]
    IN  Println(w2, Val("Trim set to: ", w2.trimOffset))

\* faulty variant of saveTrim: the byte is written without the bias
saveTrim_Unbiased(w) ==
    LET w1 == [w EXCEPT !.eeprom = w.trimOffset % 256,
                        !.trimLog = [saved |-> <<w.trimOffset>>, changed |-> FALSE,
                                     loaded |-> FALSE]]
    IN  Println(w1, Val("Trim saved: ", w1.trimOffset))

\* EEPROM.write stores one byte
saveTrim(w) ==
    LET w1 == [w EXCEPT !.eeprom = (w.trimOffset + EEPROM_TRIM_BIAS) % 256,
                        !.trimLog = [saved |-> <<w.trimOffset>>, changed |-> FALSE,
                                     loaded |-> FALSE]]
    IN  Println(w1, Val("Trim saved: ", w1.trimOffset))

\* faulty variant of loadTrim: no range test of the stored byte
loadTrim_Unchecked(w) ==
    [w EXCEPT !.trimLog.loaded = TRUE, !.trimOffset = w.eeprom - EEPROM_TRIM_BIAS]

loadTrim(w) ==
    LET stored == w.eeprom
        w1 == [w EXCEPT !.trimLog.loaded = TRUE]
    IN  IF stored >= 0 /\ stored <= 100
        THEN [w1 EXCEPT !.trimOffset = stored - EEPROM_TRIM_BIAS]
        ELSE [w1 EXCEPT !.trimOffset = 0]

\* faulty variant of applySpeed: the direction is applied before the trim
applySpeed_DirectionFirst(w) ==
    LET speedL0 == w.currentSpeedL * w.direction
        speedR0 == w.currentSpeedR * w.direction
        speedR1 == IF w.trimOffset > 0 THEN speedR0 - w.trimOffset ELSE speedR0
        speedL1 == IF w.trimOffset < 0 THEN speedL0 + w.trimOffset ELSE speedL0
    IN  setMotorR(setMotorL(w, speedL1), speedR1)

applySpeed(w) ==
    LET speedL0 == w.currentSpeedL
        speedR0 == w.currentSpeedR
        speedR1 == IF w.trimOffset > 0 THEN speedR0 - w.trimOffset ELSE speedR0
        speedL1 == IF w.trimOffset < 0 THEN speedL0 + w.trimOffset ELSE speedL0
    IN  setMotorR(setMotorL(w, speedL1 * w.direction), speedR1 * w.direction)

\* faulty variant of the ramp: steps without the min/max against the target
rampToward_Unclamped(current, target) ==
    IF current < target THEN current + MOTOR_ACCEL_STEP
    ELSE IF current > target THEN current - MOTOR_ACCEL_STEP
    ELSE current

rampToward(current, target) ==
    IF current < target THEN Min(current + MOTOR_ACCEL_STEP, target)
    ELSE IF current > target THEN Max(current - MOTOR_ACCEL_STEP, target)
    ELSE current

update(w) ==
    IF ClockLess(ClockDiff(w.now, w.lastAccelTime), MOTOR_ACCEL_DELAY)
    THEN w
    ELSE applySpeed([w EXCEPT !.lastAccelTime = w.now,
                              !.currentSpeedL = rampToward(w.currentSpeedL, w.targetSpeed),
                              !.currentSpeedR = rampToward(w.currentSpeedR, w.targetSpeed)])

----------------------------------------------------------------------------
\* MotorEncoder (encoder.cpp)

\* the two 16-bit halves of a long
Lo(x) == x % 65536

Hi(x) == (x - (x % 65536)) \div 65536

\* faulty variant of noInterrupts: the interrupt stays enabled
noInterrupts_Open(w) == w

noInterrupts(w) == [w EXCEPT !.intEnabled = FALSE]

interrupts(w) == [w EXCEPT !.intEnabled = TRUE]

\* faulty variant of the interrupt service routine: the direction test inverted
handleInterrupt_Swapped(w) ==
    LET stateA == w.levelA
        stateB == w.levelB
        count == IF stateA # w.lastStateA
                 THEN IF stateB = stateA THEN w.pulseCount + 1 ELSE w.pulseCount - 1
                 ELSE w.pulseCount
    IN  [w EXCEPT !.pulseCount = count, !.lastStateA = stateA, !.intPending = FALSE,
                  !.heldValues = IF w.pc \in {"enc_lo", "enc_hi", "enc_end"}
                                 THEN @ \cup {count} ELSE @]

\* the interrupt service routine, run once per pending interrupt
handleInterrupt(w) ==
    LET stateA == w.levelA
        stateB == w.levelB
        count == IF stateA # w.lastStateA
                 THEN IF stateB # stateA THEN w.pulseCount + 1 ELSE w.pulseCount - 1
                 ELSE w.pulseCount
    IN  [w EXCEPT !.pulseCount = count, !.lastStateA = stateA, !.intPending = FALSE,
                  !.heldValues = IF w.pc \in {"enc_lo", "enc_hi", "enc_end"}
                                 THEN @ \cup {count} ELSE @]

\* environment: one transition of channel A; channel B differs from A's new
\* level for a forward edge and equals it for a reverse edge
edge(w, fwd) ==
    LET a == 1 - w.levelA
    IN  [w EXCEPT !.levelA = a, !.levelB = IF fwd THEN 1 - a ELSE a, !.intPending = TRUE,
                  !.fwdEdges = IF fwd THEN @ + 1 ELSE @,
                  !.revEdges = IF fwd THEN @ ELSE @ + 1,
                  !.edgesInDelay = @ + 1]

\* the pending edge, not yet counted by the interrupt service routine
PendingDelta(w) == IF w.intPending THEN (IF w.levelB # w.levelA THEN 1 ELSE -1) ELSE 0

\* history: the counter was overwritten with p; only a still pending edge follows it
rebase(w, p) ==
    [w EXCEPT !.base = p, !.fwdEdges = IF PendingDelta(w) = 1 THEN 1 ELSE 0,
              !.revEdges = IF PendingDelta(w) = -1 THEN 1 ELSE 0]

\* getPosition / reset / setPosition, statement by statement; a long is moved
\* as two halves
encCall(w, op, arg) ==
    noInterrupts([w EXCEPT !.encOp = op, !.encArg = arg, !.pc = "enc_lo",
                           !.heldValues = {w.pulseCount}, !.edgesInDelay = 0])

encLo(w) ==
    IF w.encOp = "get" THEN [w EXCEPT !.loHalf = Lo(w.pulseCount), !.pc = "enc_hi"]
    ELSE [w EXCEPT !.pulseCount = Hi(w.pulseCount) * 65536 + Lo(w.encArg), !.pc = "enc_hi"]

encHi(w) ==
    IF w.encOp = "get" THEN [w EXCEPT !.hiHalf = Hi(w.pulseCount), !.pc = "enc_end"]
    ELSE rebase([w EXCEPT !.pulseCount = Hi(w.encArg) * 65536 + Lo(w.pulseCount),
                          !.pc = "enc_end"], w.encArg)

encReturn(w) ==
    LET w1 == interrupts(w)
    IN  [w1 EXCEPT !.pc = "enc_ret",
                   !.encRet = IF w.encOp = "get" THEN w.hiHalf * 65536 + w.loHalf ELSE @]

\* the caller resumes; reset() prints its line
encDone(w) ==
    [(IF w.encOp = "reset" THEN Println(w, Msg("[Encoder] Position reset to 0")) ELSE w)
        EXCEPT !.pc = "idle"]

\* the same calls as one step each, for the handlers that make them with no
\* edge in flight
getPosition(w) == w.pulseCount

\* getPosition() * MM_PER_PULSE
getPositionNM(w) == getPosition(w) * MM_PER_PULSE_NM

encoderReset(w) ==
    Println(rebase([w EXCEPT !.pulseCount = 0], 0), Msg("[Encoder] Position reset to 0"))

----------------------------------------------------------------------------
\* MotorZ (motor_z.cpp)

runForward(w) ==
    [analogWrite(analogWrite(w, "Z_IN1", MOTOR_Z_SPEED), "Z_IN2", 0) EXCEPT !.zRan = TRUE]

runBackward(w) ==
    [analogWrite(analogWrite(w, "Z_IN1", 0), "Z_IN2", MOTOR_Z_SPEED) EXCEPT !.zRan = TRUE]

motorZstop(w) == analogWrite(analogWrite(w, "Z_IN1", 0), "Z_IN2", 0)

\* run(): drive, then block in delay(duration_ms); DelayEnd below resumes it
motorZrun(w, fwd, duration_ms) ==
    [(IF fwd THEN runForward(w) ELSE runBackward(w))
        EXCEPT !.pc = "delay", !.delayMs = duration_ms, !.after = "Z"]

\* seconds arrive in 1/1000 s: (long)(seconds * 1000)
extend(w, millisec) == motorZrun(w, TRUE, millisec)

\* faulty variant of retract: the motor is run forward
retract_Forward(w, millisec) == motorZrun(w, TRUE, millisec)

retract(w, millisec) == motorZrun(w, FALSE, millisec)

\* motorZ.getPositionCM(), in nanometres
motorZgetPositionNM(w) == IF w.encoderEnabled THEN getPositionNM(w) ELSE 0

resetPosition(w) == Println(encoderReset(w), Msg("[Motor Z] Position reset to 0 (HOME)"))

enableEncoderMode(w) ==
    Println([w EXCEPT !.encoderEnabled = TRUE], Msg("[Motor Z] Encoder mode ENABLED"))

disableEncoderMode(w) ==
    Println([w EXCEPT !.encoderEnabled = FALSE],
            Msg("[Motor Z] Encoder mode DISABLED (time-based)"))

----------------------------------------------------------------------------
\* MotorY (motor_y.cpp)

runUp(w) ==
    [analogWrite(analogWrite(w, "Y_IN1", MOTOR_Y_SPEED), "Y_IN2", 0) EXCEPT !.moving = TRUE]

runDown(w) ==
    [analogWrite(analogWrite(w, "Y_IN1", 0), "Y_IN2", MOTOR_Y_SPEED) EXCEPT !.moving = TRUE]

motorYstop(w) ==
    [analogWrite(analogWrite(w, "Y_IN1", 0), "Y_IN2", 0) EXCEPT !.moving = FALSE]

up(w) ==
    [runUp(Println(w, Msg("[Motor Y] Moving UP")))
        EXCEPT !.pc = "delay", !.delayMs = MOTOR_Y_UP_TIMEOUT, !.after = "Y_UP"]

down(w) ==
    [runDown(Println(w, Msg("[Motor Y] Moving DOWN")))
        EXCEPT !.pc = "delay", !.delayMs = MOTOR_Y_DOWN_TIMEOUT, !.after = "Y_DOWN"]

upFor(w, millisec) ==
    [runUp(Println(w, Val("[Motor Y] Moving UP for ms ", millisec)))
        EXCEPT !.pc = "delay", !.delayMs = millisec, !.after = "Y"]

downFor(w, millisec) ==
    [runDown(Println(w, Val("[Motor Y] Moving DOWN for ms ", millisec)))
        EXCEPT !.pc = "delay", !.delayMs = millisec, !.after = "Y"]

----------------------------------------------------------------------------
\* Pump (pump.cpp), BuzzerController (buzzer.cpp)

pumpOn(w) == [analogWrite(w, "PUMP_RELAY", 1) EXCEPT !.pumpIsOn = TRUE]

\* faulty variant of off(): the relay is left as it is
pumpOff_Stays(w) == w

pumpOff(w) == [analogWrite(w, "PUMP_RELAY", 0) EXCEPT !.pumpIsOn = FALSE]

spray(w, millisec) ==
    [pumpOn(w) EXCEPT !.pc = "delay", !.delayMs = millisec, !.after = "PUMP"]

buzzerOn(w) == [analogWrite(w, "BUZZER", 1) EXCEPT !.buzzerIsOn = TRUE]

buzzerOff(w) == [analogWrite(w, "BUZZER", 0) EXCEPT !.buzzerIsOn = FALSE]

delay(w, ms) == [w EXCEPT !.now = ClockAdd(w.now, ms)]

beep(w, duration_ms) == buzzerOff(delay(buzzerOn(w), duration_ms))

RECURSIVE beepLoop(_, _, _)
beepLoop(w, i, times) ==
    IF i >= times THEN w
    ELSE LET w1 == beep(w, 100)
             w2 == IF i < times - 1 THEN delay(w1, 100) ELSE w1
         IN  beepLoop(w2, i + 1, times)

beepTimes(w, times) == beepLoop(w, 0, times)

\* tone(f, d): the tone generator, then delay(d); the pin state is left as it was
playSuccess(w) == delay(delay(delay(w, 100), 50), 150)

playError(w) == delay(w, 3 * (100 + 100))

playWarning(w) == delay(w, 500)

----------------------------------------------------------------------------
\* ObstacleAvoidance (obstacle_avoidance.cpp), UltrasonicSensors (ultrasonic.cpp)

avoidEnable(w) == Println([w EXCEPT !.enabled = TRUE], Msg("[Obstacle Avoidance] ENABLED"))

avoidDisable(w) == Println([w EXCEPT !.enabled = FALSE], Msg("[Obstacle Avoidance] DISABLED"))

setThreshold(w, cm) ==
    Println([w EXCEPT !.thresholdCm = cm], Val("[Obstacle Avoidance] Threshold set to ", cm))

\* faulty variant of measureDistance: a timed-out echo is taken as distance 0
measureDistance_NoSentinel(duration) == duration * 17

\* echo duration in microseconds to distance in 1/1000 cm: duration * 0.034 / 2
measureDistance(duration) == IF duration = 0 THEN 999 * 1000 ELSE duration * 17

getFrontDistance(w, echo) == [w EXCEPT !.lastFront = measureDistance(echo.front)]

getRightDistance(w, echo) == [w EXCEPT !.lastRight = measureDistance(echo.right)]

getYDistance(w, echo) == [w EXCEPT !.lastY = measureDistance(echo.y)]

\* faulty variant of the test: the out-of-range value is not told from a reading
hasObstacle_Raw(distance) == distance < OBSTACLE_THRESHOLD_CM * 1000 \/ distance = 999 * 1000

\* the test of hasObstacleFront / hasObstacleRight on the fresh sample
hasObstacle(distance) == distance < OBSTACLE_THRESHOLD_CM * 1000

\* checkObstacles: both sensors are sampled, front first
checkObstacles(w, echo) ==
    LET w1 == getFrontDistance(w, echo)
        w2 == getRightDistance(w1, echo)
        front == hasObstacle(w1.lastFront)
        right == hasObstacle(w2.lastRight)
    IN  [w |-> w2,
         obstacle |-> IF front /\ right THEN 3 ELSE IF front THEN 1 ELSE IF right THEN 2 ELSE 0]

\* Serial.print(x, 1) of a distance in 1/1000 cm: tenths of a cm
Print1(milliCM) == (milliCM + 50) \div 100

\* MotorY::moveToHeight, in the steps of its loop
HeightTolerance == 2 * 1000

maxAttempts == 50

\* entry: the banner, and the locals before the first test of the loop
moveToHeight(w, targetMilliCM) ==
    [Println(w, Val("[Motor Y] Moving to height: ", Print1(targetMilliCM)))
        EXCEPT !.pc = "y_sample", !.targetHeight = targetMilliCM, !.attempts = 0]

\* faulty variant of the loop body: up and down exchanged
moveToHeight_sample_Swapped(w, echo) ==
    LET w1 == getYDistance(w, echo)
        diff == w1.lastY - w1.targetHeight
        w2 == Println(w1, Line("  Current: , Diff: ", <<Print1(w1.lastY), Print1(diff)>>,
                               EmptyText))
    IN  IF Abs(diff) <= HeightTolerance
        THEN [Println(motorYstop(w2), Msg("[Motor Y] Target height reached!"))
                 EXCEPT !.pc = "idle"]
        ELSE [delay(IF diff < 0 THEN runDown(w2) ELSE runUp(w2), 100)
                 EXCEPT !.attempts = @ + 1]

\* one pass of the loop body, entered with attempts < maxAttempts
moveToHeight_sample(w, echo) ==
    LET w1 == getYDistance(w, echo)
        diff == w1.lastY - w1.targetHeight
        w2 == Println(w1, Line("  Current: , Diff: ", <<Print1(w1.lastY), Print1(diff)>>,
                               EmptyText))
    IN  IF Abs(diff) <= HeightTolerance
        THEN [Println(motorYstop(w2), Msg("[Motor Y] Target height reached!"))
                 EXCEPT !.pc = "idle"]
        ELSE [delay(IF diff < 0 THEN runUp(w2) ELSE runDown(w2), 100)
                 EXCEPT !.attempts = @ + 1]

\* the loop is left with attempts = maxAttempts
moveToHeight_timeout(w) ==
    [Println(motorYstop(w), Msg("[Motor Y] Timeout - target not reached"))
        EXCEPT !.pc = "idle"]

sendDistancesToSerial(w) ==
    Println(w, Line("DIST:", <<Print1(w.lastFront), Print1(w.lastRight), Print1(w.lastY)>>,
                    EmptyText))

\* a blocking delay() inside a manoeuvre: nothing runs meanwhile, update()
\* included, so the pins keep their levels for the whole of it
hold(w, ms) ==
    delay([w EXCEPT !.phases = Append(@, [ms |-> ms, direction |-> w.direction,
                                          pin |-> w.pin])], ms)

avoidFront(w) ==
    LET w1 == hold(stop(w), 100)
        w2 == hold(backward(w1), AVOID_BACKUP_DURATION_MS)
        w3 == hold(stop(w2), 100)
        w4 == turnLeft(Println(w3, Msg("[Avoid] Turning LEFT")))
    IN  stop(hold(w4, AVOID_TURN_DURATION_MS))

\* faulty variant of avoidRight: the manoeuvre ends stopped, as avoidFront does
avoidRight_Stops(w) ==
    LET w1 == hold(stop(w), 100)
        w2 == curveLeft(Println(w1, Msg("[Avoid] Slight left turn")))
    IN  stop(hold(w2, AVOID_TURN_DURATION_MS \div 2))

avoidRight(w) ==
    LET w1 == hold(stop(w), 100)
        w2 == curveLeft(Println(w1, Msg("[Avoid] Slight left turn")))
    IN  forward(hold(w2, AVOID_TURN_DURATION_MS \div 2))

\* faulty variant of checkAndAvoid: a call that is not due still samples the sensors
checkAndAvoid_Samples(w, echo) ==
    IF ~w.enabled THEN [w |-> w, avoided |-> FALSE]
    ELSE IF ClockLess(ClockDiff(w.now, w.lastCheckTime), AVOID_CHECK_INTERVAL_MS)
    THEN [w |-> checkObstacles(w, echo).w, avoided |-> FALSE]
    ELSE LET r == checkObstacles([w EXCEPT !.lastCheckTime = w.now], echo)
         IN  IF r.obstacle = 0 THEN [w |-> r.w, avoided |-> FALSE]
             ELSE [w |-> sendDistancesToSerial(
                             IF r.obstacle = 2 THEN avoidRight(r.w) ELSE avoidFront(r.w)),
                   avoided |-> TRUE]

\* faulty variant of checkAndAvoid: the drive is stopped when nothing is in the way
checkAndAvoid_StopsWhenClear(w, echo) ==
    IF ~w.enabled THEN [w |-> w, avoided |-> FALSE]
    ELSE IF ClockLess(ClockDiff(w.now, w.lastCheckTime), AVOID_CHECK_INTERVAL_MS)
    THEN [w |-> w, avoided |-> FALSE]
    ELSE LET r == checkObstacles([w EXCEPT !.lastCheckTime = w.now], echo)
         IN  IF r.obstacle = 0 THEN [w |-> stop(r.w), avoided |-> FALSE]
             ELSE [w |-> sendDistancesToSerial(
                             IF r.obstacle = 2 THEN avoidRight(r.w) ELSE avoidFront(r.w)),
                   avoided |-> TRUE]

\* checkAndAvoid, with its result
checkAndAvoid(w, echo) ==
    IF ~w.enabled THEN [w |-> w, avoided |-> FALSE]
    ELSE IF ClockLess(ClockDiff(w.now, w.lastCheckTime), AVOID_CHECK_INTERVAL_MS)
    THEN [w |-> w, avoided |-> FALSE]
    ELSE LET r == checkObstacles([w EXCEPT !.lastCheckTime = w.now], echo)
         IN  IF r.obstacle = 0 THEN [w |-> r.w, avoided |-> FALSE]
             ELSE LET w1 == IF r.obstacle = 1
                            THEN avoidFront(Println(r.w,
                                     Msg("[Obstacle] Detected: FRONT - Backing up and turning left")))
                            ELSE IF r.obstacle = 2
                            THEN avoidRight(Println(r.w,
                                     Msg("[Obstacle] Detected: RIGHT - Turning left")))
                            ELSE avoidFront(Println(r.w,
                                     Msg("[Obstacle] Detected: FRONT+RIGHT - Backing up, turning left")))
                  IN  [w |-> sendDistancesToSerial(w1), avoided |-> TRUE]

\* faulty variant of Print2: one decimal, as Serial.print(x, 1) would give
Print2_OneDecimal(nm) ==
    IF nm >= 0 THEN (nm + 500000) \div 1000000 ELSE -((-nm + 500000) \div 1000000)

\* Serial.print(x, 2) of a length in nanometres: hundredths of a cm, rounded half away
Print2(nm) == IF nm >= 0 THEN (nm + 50000) \div 100000 ELSE -((-nm + 50000) \div 100000)

----------------------------------------------------------------------------
\* Command text.  A line is its ':'-separated fields: segs holds every field
\* but the last, and the last field is the word (text opening with a letter)
\* followed by num (the remaining characters, one per element).  pad says
\* that white space surrounds the line.

trim(line) == [line EXCEPT !.pad = FALSE]

\* command == "X" and command.startsWith("A:B:")
Is(c, segs, word) == c.segs = segs /\ c.word = word /\ c.num = <<>>

startsWith(c, segs) ==
    Len(c.segs) >= Len(segs) /\ SubSeq(c.segs, 1, Len(segs)) = segs

IsDigit(ch) == ch \in {"0", "1", "2", "3", "4", "5", "6", "7", "8", "9"}

DigitVal(ch) ==
    CASE ch = "0" -> 0 [] ch = "1" -> 1 [] ch = "2" -> 2 [] ch = "3" -> 3 [] ch = "4" -> 4
      [] ch = "5" -> 5 [] ch = "6" -> 6 [] ch = "7" -> 7 [] ch = "8" -> 8 [] ch = "9" -> 9

RECURSIVE SkipSpaces(_, _)
SkipSpaces(s, i) == IF i <= Len(s) /\ s[i] = " " THEN SkipSpaces(s, i + 1) ELSE i

RECURSIVE ScanDigits(_, _, _)
ScanDigits(s, i, acc) ==
    IF i <= Len(s) /\ IsDigit(s[i]) THEN ScanDigits(s, i + 1, acc * 10 + DigitVal(s[i]))
    ELSE [val |-> acc, next |-> i]

\* the first three fraction digits, as thousandths
RECURSIVE ScanFraction(_, _, _, _)
ScanFraction(s, i, acc, scale) ==
    IF i <= Len(s) /\ IsDigit(s[i]) /\ scale > 0
    THEN ScanFraction(s, i + 1, acc + DigitVal(s[i]) * scale, scale \div 10)
    ELSE acc

\* String::toInt (atol): leading blanks, a sign, digits; 0 when none
toInt(s) ==
    LET i == SkipSpaces(s, 1)
        signed == i <= Len(s) /\ s[i] \in {"-", "+"}
        j == IF signed THEN i + 1 ELSE i
        r == ScanDigits(s, j, 0)
    IN  IF signed /\ s[i] = "-" THEN -r.val ELSE r.val

\* String::toFloat (atof), in thousandths
toFloat(s) ==
    LET i == SkipSpaces(s, 1)
        signed == i <= Len(s) /\ s[i] \in {"-", "+"}
        j == IF signed THEN i + 1 ELSE i
        r == ScanDigits(s, j, 0)
        frac == IF r.next <= Len(s) /\ s[r.next] = "." THEN ScanFraction(s, r.next + 1, 0, 100)
                ELSE 0
        v == r.val * 1000 + frac
    IN  IF signed /\ s[i] = "-" THEN -v ELSE v

\* faulty variant of parseInt: 0 unless the whole text is digits
parseInt_Strict(c) ==
    IF c.segs = <<>> \/ c.word # "" \/ \E i \in DOMAIN c.num : ~IsDigit(c.num[i]) THEN 0
    ELSE toInt(c.num)

\* parseInt / parseTime: the text after the last ':', 0 when there is no ':'
parseInt(c) == IF c.segs = <<>> \/ c.word # "" THEN 0 ELSE toInt(c.num)

parseTime(c) == IF c.segs = <<>> \/ c.word # "" THEN 0 ELSE toFloat(c.num)

----------------------------------------------------------------------------
\* CommandHandler (command_handler.cpp)

\* faulty variant of sendDone: nothing is sent
sendDone_Silent(w) == w

sendDone(w) == Println(w, Msg("DONE"))

\* faulty variant of sendError: acknowledges as well
sendError_Acked(w, line) == sendDone(Println(w, line))

sendError(w, line) == Println(w, line)

\* faulty variant of stopAll: leaves the pump alone
stopAll_KeepPump(w) == avoidDisable(emergencyStop(motorYstop(motorZstop(w))))

stopAll(w) == avoidDisable(pumpOff(emergencyStop(motorYstop(motorZstop(w)))))

\* processCommand after moveToCM has returned
\* faulty variant of the handlers' tail: Z_HOME resets whatever the result
afterMoveToCM_AlwaysReset(w, from, success) ==
    LET w1 == IF from = "Z_MOVE"
              THEN IF success THEN Println(w, Val("POS:", Print2(motorZgetPositionNM(w))))
                   ELSE sendError(w, Msg("ERROR:Move failed or timeout"))
              ELSE resetPosition(w)
    IN  [sendDone(w1) EXCEPT !.pc = "idle", !.caller = "none", !.startTime = <<0, 0>>]

afterMoveToCM(w, from, success) ==
    LET w1 == IF from = "Z_MOVE"
              THEN IF success THEN Println(w, Val("POS:", Print2(motorZgetPositionNM(w))))
                   ELSE sendError(w, Msg("ERROR:Move failed or timeout"))
              ELSE IF success THEN resetPosition(w) ELSE w
    IN  [sendDone(w1) EXCEPT !.pc = "idle", !.caller = "none", !.startTime = <<0, 0>>]

\* faulty variant of moveToCM: no test of encoderEnabled
moveToCM_Unchecked(w, targetMilliCM, from) ==
    [Println(w, Val("[Motor Z] Moving to cm/1000 ", targetMilliCM))
        EXCEPT !.pc = "z_sample", !.caller = from,
               !.targetNM = targetMilliCM * 10000, !.startTime = w.now]

\* moveToCM up to its loop; MoveToCM_Sample and MoveToCM_Delay run the loop
moveToCM(w, targetMilliCM, from) ==
    IF ~w.encoderEnabled
    THEN afterMoveToCM(Println(w, Msg("[Motor Z] ERROR: Encoder not enabled for moveToCM")),
                       from, FALSE)
    ELSE [Println(w, Val("[Motor Z] Moving to cm/1000 ", targetMilliCM))
             EXCEPT !.pc = "z_sample", !.caller = from,
                    !.targetNM = targetMilliCM * 10000, !.startTime = w.now]

\* the else-if chain of processCommand; a blocking call leaves pc away from
\* "idle" and DelayEnd or the moveToCM loop completes the handler
dispatch(w, c, echo) ==
    IF Is(c, <<>>, "MOVE_FORWARD") THEN sendDone(forward(w))
    ELSE IF Is(c, <<>>, "MOVE_BACKWARD") THEN sendDone(backward(w))
    ELSE IF Is(c, <<>>, "MOVE_STOP") THEN sendDone(stop(w))
    ELSE IF startsWith(c, <<"MOVE_FW">>) THEN sendDone(forward(setSpeed(w, parseInt(c))))
    ELSE IF startsWith(c, <<"MOVE_BW">>) THEN sendDone(backward(setSpeed(w, parseInt(c))))
    ELSE IF startsWith(c, <<"MOVE_SET_SPEED">>) THEN sendDone(setSpeed(w, parseInt(c)))
    ELSE IF Is(c, <<>>, "MOVE_GET_SPEED") THEN Println(w, Val("SPEED:", w.targetSpeed))
    ELSE IF Is(c, <<"MOVE_X">>, "FW") THEN sendDone(curveRight(w))
    ELSE IF Is(c, <<"MOVE_X">>, "BW") THEN sendDone(curveLeft(w))
    ELSE IF startsWith(c, <<"ACT", "Z_OUT">>) THEN extend(w, parseTime(c))
    ELSE IF startsWith(c, <<"ACT", "Z_IN">>) THEN retract(w, parseTime(c))
    ELSE IF startsWith(c, <<"Z_MOVE">>) THEN moveToCM(w, parseTime(c), "Z_MOVE")
    ELSE IF Is(c, <<>>, "Z_HOME") THEN moveToCM(w, 0, "Z_HOME")
    ELSE IF Is(c, <<>>, "Z_POS") THEN Println(w, Val("POS:", Print2(motorZgetPositionNM(w))))
    ELSE IF Is(c, <<>>, "Z_RESET") THEN sendDone(resetPosition(w))
    ELSE IF Is(c, <<>>, "Z_ENC_ON") THEN sendDone(enableEncoderMode(w))
    ELSE IF Is(c, <<>>, "Z_ENC_OFF") THEN sendDone(disableEncoderMode(w))
    ELSE IF Is(c, <<"ACT">>, "Y_DOWN") THEN down(w)
    ELSE IF Is(c, <<"ACT">>, "Y_UP") THEN up(w)
    ELSE IF startsWith(c, <<"Y_DOWN">>) THEN downFor(w, parseTime(c))
    ELSE IF startsWith(c, <<"Y_UP">>) THEN upFor(w, parseTime(c))
    ELSE IF Is(c, <<>>, "Y_STOP") THEN sendDone(motorYstop(w))
    ELSE IF startsWith(c, <<"ACT", "SPRAY">>) THEN spray(w, parseTime(c))
    ELSE IF Is(c, <<>>, "PUMP_ON") THEN sendDone(pumpOn(w))
    ELSE IF Is(c, <<>>, "PUMP_OFF") THEN sendDone(pumpOff(w))
    ELSE IF Is(c, <<>>, "US_GET_DIST")
         THEN LET w1 == getRightDistance(getYDistance(getFrontDistance(w, echo), echo), echo)
              IN  Println(w1, Line("DIST:", <<Print1(w1.lastFront), Print1(w1.lastY),
                                              Print1(w1.lastRight)>>, EmptyText))
    ELSE IF Is(c, <<>>, "US_CHECK")
         THEN LET r == checkObstacles(w, echo) IN Println(r.w, Val("OBSTACLE:", r.obstacle))
    ELSE IF Is(c, <<>>, "AVOID_ON") THEN sendDone(avoidEnable(w))
    ELSE IF Is(c, <<>>, "AVOID_OFF") THEN sendDone(avoidDisable(w))
    ELSE IF startsWith(c, <<"AVOID_SET">>) THEN sendDone(setThreshold(w, parseInt(c)))
    ELSE IF Is(c, <<>>, "DRIVE_FW") THEN sendDone(forward(w))
    ELSE IF Is(c, <<>>, "DRIVE_BW") THEN sendDone(backward(w))
    ELSE IF Is(c, <<>>, "DRIVE_STOP") THEN sendDone(stop(w))
    ELSE IF Is(c, <<>>, "DRIVE_ESTOP") THEN sendDone(emergencyStop(w))
    ELSE IF Is(c, <<>>, "TURN_LEFT") THEN sendDone(turnLeft(w))
    ELSE IF Is(c, <<>>, "TURN_RIGHT") THEN sendDone(turnRight(w))
    ELSE IF Is(c, <<>>, "CURVE_LEFT") THEN sendDone(curveLeft(w))
    ELSE IF Is(c, <<>>, "CURVE_RIGHT") THEN sendDone(curveRight(w))
    ELSE IF startsWith(c, <<"DRIVE_SPEED">>) THEN sendDone(setSpeed(w, parseInt(c)))
    ELSE IF startsWith(c, <<"TRIM_SET">>) THEN sendDone(setTrim(w, parseInt(c)))
    ELSE IF Is(c, <<>>, "TRIM_SAVE") THEN sendDone(saveTrim(w))
    ELSE IF Is(c, <<>>, "TRIM_GET") THEN Println(w, Val("TRIM:", w.trimOffset))
    ELSE IF Is(c, <<>>, "STOP_ALL") THEN sendDone(stopAll(w))
    ELSE IF Is(c, <<>>, "STATUS") THEN Println(w, Msg("OK"))
    ELSE IF Is(c, <<>>, "PING") THEN Println(w, Msg("PONG"))
    ELSE IF Is(c, <<>>, "BEEP") THEN sendDone(beep(w, BUZZER_DEFAULT_DUR))
    ELSE IF startsWith(c, <<"BEEP">>) THEN sendDone(beepTimes(w, parseInt(c)))
    ELSE IF Is(c, <<>>, "BUZZER_ON") THEN sendDone(buzzerOn(w))
    ELSE IF Is(c, <<>>, "BUZZER_OFF") THEN sendDone(buzzerOff(w))
    ELSE IF Is(c, <<>>, "BUZZER_SUCCESS") THEN sendDone(playSuccess(w))
    ELSE IF Is(c, <<>>, "BUZZER_ERROR") THEN sendDone(playError(w))
    ELSE IF Is(c, <<>>, "BUZZER_WARNING") THEN sendDone(playWarning(w))
    ELSE sendError(w, Line("ERROR:Unknown command: ", <<>>, c))

\* what is active in w: the drive mid-ramp under power, the pump, avoidance
Active(w) ==
    [driving |-> w.direction # 0 /\ w.targetSpeed # 0 /\ w.currentSpeedL # 0
                 /\ w.currentSpeedR # 0
                 /\ (w.pin["L_IN1"] # 0 \/ w.pin["L_IN2"] # 0)
                 /\ (w.pin["R_IN3"] # 0 \/ w.pin["R_IN4"] # 0),
     pumping |-> w.pumpIsOn,
     avoiding |-> w.enabled]

processCommand(w, line, echo) ==
    LET c == trim(line)
    IN  dispatch([w EXCEPT !.out = <<>>, !.lastCmd = c, !.zRan = FALSE, !.before = Active(w),
                           !.elapsedAtEnd = <<0, 0>>, !.phases = <<>>],
                 c, echo)

\* the blocking call returns: delay() is over, the actuator is stopped, and
\* the handler sends its acknowledgement
delayEnd(w) ==
    LET w1 == delay(w, w.delayMs)
        w2 == CASE w.after = "Z" -> motorZstop(w1)
                [] w.after = "Y" -> motorYstop(w1)
                [] w.after = "Y_UP" -> Println(motorYstop(w1), Msg("[Motor Y] UP complete"))
                [] w.after = "Y_DOWN" -> Println(motorYstop(w1), Msg("[Motor Y] DOWN complete"))
                [] w.after = "PUMP" -> pumpOff(w1)
    IN  [sendDone(w2) EXCEPT !.pc = "idle"]

\* faulty variant of the loop pass: the sign test of the error reversed
moveToCM_sample_Away(w) ==
    LET currentNM == getPositionNM(w)
        errorNM == w.targetNM - currentNM
        elapsed == ClockDiff(w.now, w.startTime)
    IN  IF Abs(errorNM) <= MOTOR_Z_POSITION_TOLERANCE * NM_PER_MM
        THEN afterMoveToCM(
                 Println([motorZstop(w) EXCEPT !.elapsedAtEnd = elapsed],
                         Val("[Motor Z] Reached target. Actual cm/100: ", Print2(currentNM))),
                 w.caller, TRUE)
        ELSE IF ClockGreater(elapsed, MOTOR_Z_TIMEOUT_MS)
        THEN afterMoveToCM(
                 Println([motorZstop(w) EXCEPT !.elapsedAtEnd = elapsed],
                         Msg("[Motor Z] TIMEOUT!")),
                 w.caller, FALSE)
        ELSE [(IF errorNM < 0 THEN runForward(w) ELSE runBackward(w))
                 EXCEPT !.pc = "z_delay", !.edgesInDelay = 0]

\* moveToCM, one pass of the loop up to delay(10)
moveToCM_sample(w) ==
    LET currentNM == getPositionNM(w)
        errorNM == w.targetNM - currentNM
        elapsed == ClockDiff(w.now, w.startTime)
    IN  IF Abs(errorNM) <= MOTOR_Z_POSITION_TOLERANCE * NM_PER_MM
        THEN afterMoveToCM(
                 Println([motorZstop(w) EXCEPT !.elapsedAtEnd = elapsed],
                         Val("[Motor Z] Reached target. Actual cm/100: ", Print2(currentNM))),
                 w.caller, TRUE)
        ELSE IF ClockGreater(elapsed, MOTOR_Z_TIMEOUT_MS)
        THEN afterMoveToCM(
                 Println([motorZstop(w) EXCEPT !.elapsedAtEnd = elapsed],
                         Msg("[Motor Z] TIMEOUT!")),
                 w.caller, FALSE)
        ELSE [(IF errorNM > 0 THEN runForward(w) ELSE runBackward(w))
                 EXCEPT !.pc = "z_delay", !.edgesInDelay = 0]

\* moveToCM: delay(10) returns
moveToCM_delay(w) == [delay(w, MoveToCMDelay) EXCEPT !.pc = "z_sample"]

----------------------------------------------------------------------------
\* Bounds of the model and the inputs drawn

\* model time, in ms, that Tick and blocking calls may use up under Spec
MaxTime == 20
\* the same under SpecDrive
MaxDriveTime == 40
\* closed-loop Z moves per behaviour
MaxMoves == 2
\* encoder edges per behaviour of the interleaved encoder model
MaxEdges == 3

Cmd(segs, word, num) == [segs |-> segs, word |-> word, num |-> num, pad |-> FALSE]

Padded(c) == [c EXCEPT !.pad = TRUE]

DriveCommands ==
    {Cmd(<<>>, v, <<>>) : v \in {"MOVE_FORWARD", "MOVE_BACKWARD", "MOVE_STOP", "MOVE_GET_SPEED",
                                 "DRIVE_ESTOP", "TURN_LEFT", "STOP_ALL"}}
    \cup {Cmd(<<"MOVE_FW">>, "", t) : t \in {<<"2", "0", "0">>, <<"0">>}}
    \cup {Cmd(<<"MOVE_BW">>, "", t) : t \in {<<"2", "0", "0">>}}
    \cup {Cmd(<<"MOVE_SET_SPEED">>, "", t) : t \in {<<"2", "0", "0">>}}
    \cup {Cmd(<<"TRIM_SET">>, "", t) : t \in {<<"-", "6", "0">>}}

OtherCommands ==
    {Cmd(<<>>, v, <<>>) : v \in {"PUMP_ON", "AVOID_ON", "PING"}}
    \cup {Cmd(<<"ACT", "Z_OUT">>, "", <<"1", ".", "5">>), Cmd(<<"ACT">>, "Y_UP", <<>>)}

\* lines that match no pattern
UnknownCommands ==
    {Cmd(<<>>, "FOO_BAR", <<>>), Cmd(<<"MOVE">>, "", <<"5">>),
     Padded(Cmd(<<>>, "FOO_BAR", <<>>))}

Commands == DriveCommands \cup OtherCommands \cup UnknownCommands

\* echo durations in microseconds; 0 is a timed-out echo
NoEcho == [front |-> 0, y |-> 0, right |-> 0]

Echoes(line) == {NoEcho}

TickSteps == {10, 20}

\* millis() when setup() returns: just after boot, and shortly before the
\* 32-bit counter wraps
NearWrap == <<65535, 65536 - 30>>

InitClocks == {<<0, 0>>, NearWrap}

InitEeprom == {255}

\* arguments of the direct calls under SpecDrive
SpeedArgs == {-5, 0, 3, 300}

TrimArgs == {10, -60}

----------------------------------------------------------------------------
\* The state after setup(): every init() has run

InitWorld(clock, stored, a, b) ==
    /\ direction = 0 /\ targetSpeed = 0 /\ currentSpeedL = 0 /\ currentSpeedR = 0
    /\ trimOffset = IF stored >= 0 /\ stored <= 100 THEN stored - EEPROM_TRIM_BIAS ELSE 0
    /\ lastAccelTime = <<0, 0>>
    /\ pin = [p \in PinNames |-> 0]
    /\ encoderEnabled = TRUE /\ moving = FALSE /\ pumpIsOn = FALSE /\ buzzerIsOn = FALSE
    /\ enabled = FALSE /\ thresholdCm = OBSTACLE_THRESHOLD_CM /\ lastCheckTime = <<0, 0>>
    /\ lastFront = 999 * 1000 /\ lastRight = 999 * 1000 /\ lastY = 999 * 1000
    /\ pulseCount = 0 /\ lastStateA = a /\ levelA = a /\ levelB = b
    /\ intEnabled = TRUE /\ intPending = FALSE
    /\ eeprom = stored
    /\ now = clock
    /\ out = <<>> /\ lastCmd = EmptyText
    /\ pc = "idle" /\ targetNM = 0 /\ startTime = <<0, 0>> /\ caller = "none"
    /\ delayMs = 0 /\ after = "none"
    /\ encOp = "none" /\ encArg = 0 /\ loHalf = 0 /\ hiHalf = 0 /\ encRet = 0
    /\ encMode = "none" /\ edgesInDelay = 0
    /\ elapsedAtEnd = <<0, 0>> /\ zRan = FALSE /\ heldValues = {} /\ base = 0
    /\ fwdEdges = 0 /\ revEdges = 0
    /\ before = [driving |-> FALSE, pumping |-> FALSE, avoiding |-> FALSE]
    /\ trimLog = [saved |-> <<>>, changed |-> FALSE, loaded |-> FALSE]
    /\ lastCall = "init"
    /\ phases = <<>>
    /\ targetHeight = 0 /\ attempts = 0
    /\ pinLog = [on |-> FALSE, seen |-> <<>>]

Init ==
    /\ \E stored \in InitEeprom : InitWorld(<<0, 0>>, stored, 1, 1)
    /\ budget = MaxTime

----------------------------------------------------------------------------
\* Spec: the dispatcher, with the idle loop's update()

\* model time left after the step from w0 to w1
Spend(w0, w1) ==
    LET d == ClockDiff(w1.now, w0.now)
    IN  IF d[1] > 0 THEN 0 ELSE Max(0, w0.budget - d[2])

\* loop() hands one received line to processCommand
Processes(line) ==
    /\ pc = "idle"
    /\ \E echo \in Echoes(line) :
         \E w \in {processCommand(World, line, echo)} :
            /\ (w.pc = "delay" \/ w.now # now) => budget > 0
            /\ Commit([w EXCEPT !.budget = Spend(World, w)])

ProcessCommand == \E line \in Commands : Processes(line)

DelayEnd ==
    /\ pc = "delay"
    /\ \E w \in {delayEnd(World)} : Commit([w EXCEPT !.budget = Spend(World, w)])

Update ==
    /\ pc = "idle"
    /\ \E w \in {update(World)} : Commit(w)

Tick ==
    /\ pc = "idle"
    /\ \E d \in TickSteps :
         /\ budget >= d
         /\ \E w \in {[delay(World, d) EXCEPT !.budget = @ - d]} : Commit(w)

Next == ProcessCommand \/ DelayEnd \/ Update \/ Tick

Spec == Init /\ [][Next]_vars

----------------------------------------------------------------------------
\* SpecDrive: the public operations of DualMotorController called directly,
\* with update() and the passing of time

InitDrive ==
    /\ \E clock \in InitClocks, stored \in InitEeprom : InitWorld(clock, stored, 1, 1)
    /\ budget = MaxDriveTime

\* the world a call starts in: the serial history holds this call's lines only
Fresh == [World EXCEPT !.out = <<>>, !.before = Active(World), !.phases = <<>>]

Forward == \E w \in {forward(Fresh)} : Commit(w)

Backward == \E w \in {backward(Fresh)} : Commit(w)

Stop == \E w \in {stop(Fresh)} : Commit(w)

EmergencyStop == \E w \in {emergencyStop(Fresh)} : Commit(w)

TurnLeft == \E w \in {turnLeft(Fresh)} : Commit(w)

TurnRight == \E w \in {turnRight(Fresh)} : Commit(w)

CurveLeft == \E w \in {curveLeft(Fresh)} : Commit(w)

CurveRight == \E w \in {curveRight(Fresh)} : Commit(w)

SetSpeed == \E s \in SpeedArgs : \E w \in {setSpeed(Fresh, s)} : Commit(w)

SetTrim == \E t \in TrimArgs : \E w \in {setTrim(Fresh, t)} : Commit(w)

NextDrive ==
    \/ Forward \/ Backward \/ Stop \/ EmergencyStop
    \/ TurnLeft \/ TurnRight \/ CurveLeft \/ CurveRight
    \/ SetSpeed \/ SetTrim \/ Update \/ Tick

SpecDrive == InitDrive /\ [][NextDrive]_vars

----------------------------------------------------------------------------
\* SpecSettle: the public operations called in any order while the loop makes
\* its first effective update() calls, and then update() alone until it
\* changes nothing any more

\* effective update() calls during which operations still arrive
MaxBusyUpdates == 3

SettleSpeeds == {0, 12}

DriveCalls ==
    {[name |-> n, arg |-> 0] :
        n \in {"forward", "backward", "stop", "emergencyStop", "turnLeft", "turnRight",
               "curveLeft", "curveRight"}}
    \cup {[name |-> n, arg |-> s] : n \in {"setSpeed", "setSpeedSmooth"}, s \in SettleSpeeds}
    \cup {[name |-> "setTrim", arg |-> 10]}

driveCall(w, call) ==
    CASE call.name = "forward" -> forward(w)
      [] call.name = "backward" -> backward(w)
      [] call.name = "stop" -> stop(w)
      [] call.name = "emergencyStop" -> emergencyStop(w)
      [] call.name = "turnLeft" -> turnLeft(w)
      [] call.name = "turnRight" -> turnRight(w)
      [] call.name = "curveLeft" -> curveLeft(w)
      [] call.name = "curveRight" -> curveRight(w)
      [] call.name = "setSpeed" -> setSpeed(w, call.arg)
      [] call.name = "setSpeedSmooth" -> setSpeedSmooth(w, call.arg)
      [] call.name = "setTrim" -> setTrim(w, call.arg)

InitSettle ==
    /\ \E stored \in InitEeprom : InitWorld(<<0, 0>>, stored, 1, 1)
    /\ budget = MaxBusyUpdates

Calls(call) ==
    /\ budget > 0
    /\ \E w \in {driveCall(Fresh, call)} : Commit([w EXCEPT !.lastCall = call.name])

DriveCall == \E call \in DriveCalls : Calls(call)

\* an effective update() would still change a speed or a pin
Unsettled ==
    \/ currentSpeedL # targetSpeed \/ currentSpeedR # targetSpeed
    \/ applySpeed(World).pin # pin

\* update() has something left to do, or operations may still arrive
UpdatePending == budget > 0 \/ Unsettled

\* the loop reaches update() once MOTOR_ACCEL_DELAY has passed
UpdateDue ==
    /\ UpdatePending
    /\ \E w \in {update(delay(Fresh, MOTOR_ACCEL_DELAY))} :
          Commit([w EXCEPT !.budget = Max(0, @ - 1)])

NextSettle == DriveCall \/ UpdateDue

\* UpdateDue as the clock sees it: no other step moves the clock
UpdateClock == UpdatePending /\ now' = ClockAdd(now, MOTOR_ACCEL_DELAY)

\* loop() keeps calling update()
SpecSettle == InitSettle /\ [][NextSettle]_vars /\ WF_now(UpdateClock)

----------------------------------------------------------------------------
\* SpecZ: the Z commands with the closed-loop move run sample by sample.
\* The encoder is the environment of a move: "ideal" counts one edge in the
\* driven direction during every delay(10), "stuck" never counts.

ZCommands ==
    {Cmd(<<"Z_MOVE">>, "", t) : t \in {<<"1", ".", "0">>, <<"0", ".", "6", "7", "1">>,
                                       <<"0", ".", "7">>}}
    \cup {Cmd(<<>>, v, <<>>) : v \in {"Z_HOME", "Z_ENC_OFF", "Z_ENC_ON"}}

EncoderModes == {"ideal", "stuck"}

\* the first move runs across the wrap of millis(), a second one after it
InitZ ==
    /\ \E stored \in InitEeprom : InitWorld(NearWrap, stored, 1, 1)
    /\ budget = MaxMoves

\* the shaft turns while a Z pin is driven: one edge, counted by the
\* interrupt service routine before delay() returns
travel(w) ==
    IF w.encMode = "ideal" /\ (w.pin["Z_IN1"] # 0 \/ w.pin["Z_IN2"] # 0)
    THEN handleInterrupt(edge(w, w.pin["Z_IN1"] # 0))
    ELSE w

ProcessesZ(line) ==
    /\ pc = "idle"
    /\ \E mode \in EncoderModes :
         \E w \in {processCommand([World EXCEPT !.encMode = mode], line, NoEcho)} :
            IF w.pc = "z_sample"
            THEN budget > 0 /\ Commit([w EXCEPT !.budget = @ - 1])
            ELSE Commit([w EXCEPT !.encMode = "none"])

ProcessZCommand == \E line \in ZCommands : ProcessesZ(line)

MoveToCM_Sample ==
    /\ pc = "z_sample"
    /\ \E w \in {moveToCM_sample(World)} : Commit(w)

MoveToCM_Delay ==
    /\ pc = "z_delay"
    /\ \E w \in {moveToCM_delay(travel(World))} : Commit(w)

NextZ == ProcessZCommand \/ MoveToCM_Sample \/ MoveToCM_Delay

\* the loop of moveToCM is straight-line code and delay() returns
SpecZ == InitZ /\ [][NextZ]_vars /\ WF_vars(MoveToCM_Sample) /\ WF_vars(MoveToCM_Delay)

----------------------------------------------------------------------------
\* SpecEnc: getPosition, reset and setPosition run statement by statement
\* against the edges of channel A.  An edge raises the interrupt; the service
\* routine runs before the main flow's next statement unless interrupts are
\* disabled, and then as soon as they are enabled again.  Each edge is
\* serviced before the next one arrives.

SetArgs == {65535, -1}

InitEnc ==
    /\ \E stored \in InitEeprom, a \in {0, 1}, b \in {0, 1} :
          InitWorld(<<0, 0>>, stored, a, b)
    /\ budget = MaxEdges

\* the main flow may take a step: no interrupt is waiting to be served
MainRuns == ~(intEnabled /\ intPending)

GetPosition ==
    /\ pc = "idle" /\ MainRuns
    /\ \E w \in {encCall(Fresh, "get", 0)} : Commit(w)

Reset ==
    /\ pc = "idle" /\ MainRuns
    /\ \E w \in {encCall(Fresh, "reset", 0)} : Commit(w)

SetPosition ==
    /\ pc = "idle" /\ MainRuns
    /\ \E p \in SetArgs : \E w \in {encCall(Fresh, "set", p)} : Commit(w)

EncLo ==
    /\ pc = "enc_lo" /\ MainRuns
    /\ \E w \in {encLo(World)} : Commit(w)

EncHi ==
    /\ pc = "enc_hi" /\ MainRuns
    /\ \E w \in {encHi(World)} : Commit(w)

EncReturn ==
    /\ pc = "enc_end" /\ MainRuns
    /\ \E w \in {encReturn(World)} : Commit(w)

EncDone ==
    /\ pc = "enc_ret" /\ MainRuns
    /\ \E w \in {encDone(World)} : Commit(w)

Edge ==
    /\ ~intPending /\ budget > 0
    /\ \E fwd \in BOOLEAN : \E w \in {edge(World, fwd)} : Commit([w EXCEPT !.budget = @ - 1])

HandleInterrupt ==
    /\ intPending /\ intEnabled
    /\ \E w \in {handleInterrupt(World)} : Commit(w)

NextEnc ==
    \/ GetPosition \/ Reset \/ SetPosition
    \/ EncLo \/ EncHi \/ EncReturn \/ EncDone
    \/ Edge \/ HandleInterrupt

SpecEnc == InitEnc /\ [][NextEnc]_vars

----------------------------------------------------------------------------
\* SpecTrim: setTrim, saveTrim and loadTrim called in any order

TrimInputs == {-60, -50, -10, -1, 0, 1, 10, 50, 51}

\* contents of the EEPROM cell at boot: saved trims, and bytes never written
TrimCells == {0, 100, 101, 255}

InitTrim ==
    /\ \E stored \in TrimCells : InitWorld(<<0, 0>>, stored, 1, 1)
    /\ budget = 0

SetTrimTo(v) == \E w \in {setTrim(Fresh, v)} : Commit(w)

SetAnyTrim == \E v \in TrimInputs : SetTrimTo(v)

SaveTrim == \E w \in {saveTrim(Fresh)} : Commit(w)

LoadTrim == \E w \in {loadTrim(Fresh)} : Commit(w)

NextTrim == SetAnyTrim \/ SaveTrim \/ LoadTrim

SpecTrim == InitTrim /\ [][NextTrim]_vars

----------------------------------------------------------------------------
\* SpecSense: the ultrasonic and avoidance commands, and checkAndAvoid called
\* from the idle loop on fresh echoes

\* effective obstacle checks per behaviour
MaxChecks == 1

\* echo widths in microseconds, front and right: none, 20 cm, just under and
\* just over 30 cm, 50 cm
EchoWidths ==
    {<<0, 0>>, <<1176, 2941>>, <<2941, 1176>>, <<1764, 1765>>, <<1765, 1764>>,
     <<1764, 1176>>, <<2941, 0>>, <<1765, 2941>>}

SenseEchoes == {[front |-> e[1], y |-> 0, right |-> e[2]] : e \in EchoWidths}

SenseCommands ==
    {Cmd(<<>>, v, <<>>) : v \in {"US_CHECK", "AVOID_ON", "AVOID_OFF"}}
    \cup {Cmd(<<"AVOID_SET">>, "", t) : t \in {<<"2", "0">>, <<"6", "0">>}}

InitSense ==
    /\ \E stored \in InitEeprom : InitWorld(<<0, 0>>, stored, 1, 1)
    /\ budget = MaxChecks

ProcessesSense(line, echo) ==
    /\ pc = "idle"
    /\ \E w \in {processCommand(World, line, echo)} : Commit(w)

ProcessSenseCommand == \E line \in SenseCommands, echo \in SenseEchoes : ProcessesSense(line, echo)

\* the check runs when it is enabled and due
CheckDue == enabled /\ ~ClockLess(ClockDiff(now, lastCheckTime), AVOID_CHECK_INTERVAL_MS)

CheckAndAvoidOn(echo) ==
    /\ pc = "idle"
    /\ CheckDue => budget > 0
    /\ \E r \in {checkAndAvoid(Fresh, echo)} :
          Commit([r.w EXCEPT !.budget = IF CheckDue THEN @ - 1 ELSE @])

CheckAndAvoid == \E echo \in SenseEchoes : CheckAndAvoidOn(echo)

\* time passes until the next check is due
TickSense ==
    /\ pc = "idle" /\ enabled /\ ~CheckDue
    /\ \E w \in {delay(World, AVOID_CHECK_INTERVAL_MS)} : Commit(w)

NextSense == ProcessSenseCommand \/ CheckAndAvoid \/ TickSense

SpecSense == InitSense /\ [][NextSense]_vars

----------------------------------------------------------------------------
\* SpecAvoid: checkAndAvoid called from the idle loop while the drive is
\* commanded and ramped

\* commands, ramp steps and checks per behaviour
MaxAvoidSteps == 5

\* echo widths in microseconds: 20 cm and 50 cm, and 0 for no echo
AvoidEchoes ==
    {[front |-> e[1], y |-> 0, right |-> e[2]] :
        e \in {<<0, 0>>, <<2941, 2941>>, <<1176, 2941>>, <<1176, 0>>, <<0, 1176>>,
               <<1176, 1176>>}}

AvoidCommands ==
    {Cmd(<<>>, v, <<>>) : v \in {"AVOID_ON", "AVOID_OFF", "STOP_ALL", "DRIVE_FW", "DRIVE_BW"}}

InitAvoid ==
    /\ \E stored \in InitEeprom : InitWorld(<<0, 0>>, stored, 1, 1)
    /\ budget = MaxAvoidSteps

ProcessesAvoid(line) ==
    /\ pc = "idle" /\ budget > 0
    /\ \E w \in {processCommand(World, line, NoEcho)} :
          Commit([w EXCEPT !.budget = @ - 1, !.lastCall = "processCommand"])

ProcessAvoidCommand == \E line \in AvoidCommands : ProcessesAvoid(line)

\* the idle loop's update(), one ramp interval after the last
Ramps ==
    /\ pc = "idle" /\ budget > 0
    /\ \E w \in {update(delay(Fresh, MOTOR_ACCEL_DELAY))} :
          Commit([w EXCEPT !.budget = @ - 1, !.lastCall = "update"])

\* the idle loop's checkAndAvoid()
Checks(echo) ==
    /\ pc = "idle" /\ budget > 0
    /\ \E r \in {checkAndAvoid(Fresh, echo)} :
          Commit([r.w EXCEPT !.budget = @ - 1, !.lastCall = "checkAndAvoid"])

Check == \E echo \in AvoidEchoes : Checks(echo)

\* time passes until the next check is due
Waits ==
    /\ pc = "idle" /\ enabled /\ ~CheckDue /\ budget > 0
    /\ \E w \in {delay(World, AVOID_CHECK_INTERVAL_MS)} : Commit([w EXCEPT !.lastCall = "delay"])

NextAvoid == ProcessAvoidCommand \/ Ramps \/ Check \/ Waits

SpecAvoid == InitAvoid /\ [][NextAvoid]_vars

----------------------------------------------------------------------------
\* SpecY: MotorY::moveToHeight called directly, on any sequence of echoes

\* calls of moveToHeight per behaviour
MaxHeightMoves == 1

\* target heights in 1/1000 cm: Y_TARGET_HEIGHT_CM and one more
HeightTargets == {15 * 1000, 20 * 1000}

\* echo widths in microseconds of the Y sensor: none, 10 cm, just below and
\* just inside 13 cm, 15 cm, just above 17 cm, 25 cm
HeightEchoes ==
    {[front |-> 0, y |-> e, right |-> 0] : e \in {0, 588, 764, 766, 882, 1001, 1470}}

InitY ==
    /\ \E stored \in InitEeprom : InitWorld(<<0, 0>>, stored, 1, 1)
    /\ budget = MaxHeightMoves

MoveToHeight ==
    /\ pc = "idle" /\ budget > 0
    /\ \E t \in HeightTargets :
          \E w \in {moveToHeight(Fresh, t)} : Commit([w EXCEPT !.budget = @ - 1])

\* the serial history holds the lines of the pass in progress
SamplesHeight(echo) ==
    /\ pc = "y_sample" /\ attempts < maxAttempts
    /\ \E w \in {moveToHeight_sample(Fresh, echo)} : Commit(w)

MoveToHeight_Sample == \E echo \in HeightEchoes : SamplesHeight(echo)

MoveToHeight_Timeout ==
    /\ pc = "y_sample" /\ attempts >= maxAttempts
    /\ \E w \in {moveToHeight_timeout(Fresh)} : Commit(w)

NextY == MoveToHeight \/ MoveToHeight_Sample \/ MoveToHeight_Timeout

\* the steps of the loop as its locals and pc see them: no other step of
\* SpecY changes attempts or leaves "y_sample"
LoopPasses ==
    /\ pc = "y_sample"
    /\ \/ attempts < maxAttempts /\ attempts' = attempts + 1 /\ pc' = pc
       \/ pc' = "idle" /\ attempts' = attempts

\* the loop blocks in delay() only: once entered it runs on
SpecY == InitY /\ [][NextY]_vars /\ WF_<<attempts, pc>>(LoopPasses)

----------------------------------------------------------------------------
\* SpecRange: drive commands with arguments outside the ranges of speed and
\* trim, and update() from the idle loop until the ramp has settled

\* commands and ramp steps per behaviour before the ramp is left to settle
MaxRangeSteps == 4

RangeCommands ==
    {Cmd(<<>>, v, <<>>) : v \in {"MOVE_STOP", "TURN_LEFT"}}
    \cup {Cmd(<<"MOVE_SET_SPEED">>, "", t) : t \in {<<"3", "0", "0">>, <<"-", "5">>}}
    \cup {Cmd(<<"MOVE_BW">>, "", t) : t \in {<<"3", "0", "0">>}}
    \cup {Cmd(<<"TRIM_SET">>, "", t) : t \in {<<"-", "6", "0">>, <<"9", "9", "9">>}}

InitRange ==
    /\ \E stored \in InitEeprom : InitWorld(<<0, 0>>, stored, 1, 1)
    /\ budget = MaxRangeSteps

ProcessesRange(line) ==
    /\ pc = "idle" /\ budget > 0
    /\ \E w \in {processCommand(World, line, NoEcho)} : Commit([w EXCEPT !.budget = @ - 1])

ProcessRangeCommand == \E line \in RangeCommands : ProcessesRange(line)

\* the idle loop's update(), one ramp interval after the last
RampsOn ==
    /\ pc = "idle" /\ UpdatePending
    /\ \E w \in {update(delay(Fresh, MOTOR_ACCEL_DELAY))} :
          Commit([w EXCEPT !.budget = Max(0, @ - 1)])

NextRange == ProcessRangeCommand \/ RampsOn

SpecRange == InitRange /\ [][NextRange]_vars

----------------------------------------------------------------------------
\* SpecProto: every pattern of the dispatcher, each blocking handler followed
\* to its return

\* commands per behaviour
MaxCommands == 1

RestCommands ==
    {Cmd(<<>>, v, <<>>) :
        v \in {"Z_HOME", "Z_ENC_ON", "Z_ENC_OFF", "Z_POS", "Z_RESET", "Y_STOP", "PUMP_OFF",
               "US_GET_DIST", "DRIVE_FW", "DRIVE_BW", "DRIVE_STOP", "TURN_RIGHT", "CURVE_LEFT", "CURVE_RIGHT", "TRIM_SAVE",
               "TRIM_GET", "STATUS", "BEEP", "BUZZER_ON", "BUZZER_OFF", "BUZZER_SUCCESS",
               "BUZZER_ERROR", "BUZZER_WARNING"}}
    \cup {Cmd(<<"MOVE_X">>, "FW", <<>>), Cmd(<<"MOVE_X">>, "BW", <<>>),
          Cmd(<<"ACT">>, "Y_DOWN", <<>>)}
    \cup {Cmd(<<"ACT", v>>, "", <<"1", ".", "5">>) : v \in {"Z_IN", "SPRAY"}}
    \cup {Cmd(<<v>>, "", <<"1", ".", "5">>) : v \in {"Y_DOWN", "Y_UP"}}
    \cup {Cmd(<<v>>, "", <<"2", "0", "0">>) : v \in {"MOVE_SET_SPEED", "DRIVE_SPEED"}}
    \cup {Cmd(<<"BEEP">>, "", <<"2">>), Cmd(<<"Z_MOVE">>, "", <<"1", ".", "0">>)}

\* patterns that take a number, with text after the last colon that is none:
\* empty, letters, a number followed by letters, a sign alone
MalformedArgs == {<<>>, <<"a", "b", "c">>, <<"1", "a", "b">>, <<"-">>}

NumericPatterns ==
    {<<"MOVE_FW">>, <<"MOVE_BW">>, <<"MOVE_SET_SPEED">>, <<"ACT", "Z_OUT">>, <<"ACT", "Z_IN">>,
     <<"Z_MOVE">>, <<"Y_DOWN">>, <<"Y_UP">>, <<"ACT", "SPRAY">>, <<"AVOID_SET">>,
     <<"DRIVE_SPEED">>, <<"TRIM_SET">>, <<"BEEP">>}

MalformedCommands == {Cmd(p, "", t) : p \in NumericPatterns, t \in MalformedArgs}

RecognisedCommands ==
    DriveCommands \cup OtherCommands \cup SenseCommands \cup RestCommands
    \cup MalformedCommands

AllCommands == RecognisedCommands \cup UnknownCommands

\* echoes of the three sensors: none, and front 20 cm, Y 10 cm, right 50 cm
ProtoEchoes == {NoEcho, [front |-> 1176, y |-> 588, right |-> 2941]}

InitProto ==
    /\ \E stored \in InitEeprom : InitWorld(<<0, 0>>, stored, 1, 1)
    /\ budget = MaxCommands

\* a jammed shaft is followed through on the first command only
ProcessesAny(line, mode, echo) ==
    /\ pc = "idle" /\ budget > 0
    /\ mode = "stuck" => budget = MaxCommands
    /\ \E w \in {processCommand([World EXCEPT !.encMode = mode], line, echo)} :
          Commit([w EXCEPT !.budget = @ - 1,
                           !.encMode = IF w.pc = "z_sample" THEN mode ELSE "none"])

ProcessAnyCommand ==
    \E line \in AllCommands, mode \in EncoderModes, echo \in ProtoEchoes :
        ProcessesAny(line, mode, echo)

DelayReturns ==
    /\ pc = "delay"
    /\ \E w \in {delayEnd(World)} : Commit(w)

NextProto == ProcessAnyCommand \/ DelayReturns \/ MoveToCM_Sample \/ MoveToCM_Delay

\* delay() returns and the loop of moveToCM is straight-line code
SpecProto ==
    /\ InitProto /\ [][NextProto]_vars
    /\ WF_vars(DelayReturns) /\ WF_vars(MoveToCM_Sample) /\ WF_vars(MoveToCM_Delay)

----------------------------------------------------------------------------
\* Properties of the dispatcher and the drive controller

DrivePins == {"L_IN1", "L_IN2", "R_IN3", "R_IN4"}

DriveHalted ==
    /\ direction = 0 /\ targetSpeed = 0 /\ currentSpeedL = 0 /\ currentSpeedR = 0
    /\ \A p \in DrivePins : pin[p] = 0

AllHalted ==
    /\ DriveHalted
    /\ \A p \in {"Z_IN1", "Z_IN2", "Y_IN1", "Y_IN2", "PUMP_RELAY"} : pin[p] = 0
    /\ ~moving /\ ~pumpIsOn /\ ~enabled

\* the lines of the wire protocol; every other line is a diagnostic
ProtocolTexts ==
    {"DONE", "ERROR:Move failed or timeout", "ERROR:Unknown command: ", "SPEED:", "POS:",
     "DIST:", "OBSTACLE:", "TRIM:", "OK", "PONG"}

IsProtocol(l) == l.t \in ProtocolTexts

Response(o) == SelectSeq(o, IsProtocol)

ActuatorState ==
    <<direction, targetSpeed, currentSpeedL, currentSpeedR, trimOffset, pin, pumpIsOn,
      buzzerIsOn, moving, enabled, thresholdCm, pulseCount, encoderEnabled, eeprom>>

IsSpeedDrive(c) ==
    (startsWith(c, <<"MOVE_FW">>) \/ startsWith(c, <<"MOVE_BW">>)) /\ parseInt(c) \in 0..255

\* C1: processing MOVE_FW:s (MOVE_BW:s) with s in 0..255 leaves the direction
\* forward (backward), and a MOVE_GET_SPEED processed next emits SPEED:s
C1_SpeedReadBack ==
    [][/\ \A line \in Commands :
            IsSpeedDrive(trim(line)) /\ Processes(line)
                => direction' = (IF startsWith(trim(line), <<"MOVE_FW">>) THEN 1 ELSE -1)
       /\ IsSpeedDrive(lastCmd) /\ Processes(Cmd(<<>>, "MOVE_GET_SPEED", <<>>))
            => out' = <<Val("SPEED:", parseInt(lastCmd))>>]_vars

\* C2: a line that matches no command pattern makes processCommand emit the
\* single line ERROR:Unknown command: <trimmed text>, without DONE, and
\* leaves every actuator untouched
C2_UnknownCommand ==
    [][\A line \in UnknownCommands :
          Processes(line)
              => /\ out' = <<Line("ERROR:Unknown command: ", <<>>, trim(line))>>
                 /\ UNCHANGED ActuatorState]_vars

\* an unknown line has been answered while the drive was mid-ramp
C2_Witness ==
    /\ lastCmd = Cmd(<<>>, "FOO_BAR", <<>>)
    /\ out = <<Line("ERROR:Unknown command: ", <<>>, lastCmd)>>
    /\ before.driving /\ currentSpeedL # 0 /\ pin # [p \in PinNames |-> 0]

\* C3: whatever the drive state, one call of emergencyStop leaves both
\* current speeds 0, the target 0, the direction stopped and the four drive
\* pins at 0
C3_EmergencyStop == [][EmergencyStop => DriveHalted']_vars

\* emergencyStop has been called on a drive that was mid-ramp under power
C3_Witness == before.driving /\ out = <<Msg("Emergency Stop!")>> /\ DriveHalted

\* C4: processing STOP_ALL halts every actuator (Z, Y and drive pins 0,
\* direction stopped, speeds 0, pump off, avoidance disabled) and the
\* response is DONE
C4_StopAll ==
    [][Processes(Cmd(<<>>, "STOP_ALL", <<>>))
          => (AllHalted /\ Response(out) = <<Msg("DONE")>> /\ out[Len(out)] = Msg("DONE"))']_vars

\* STOP_ALL has been processed with the drive mid-ramp, the pump on and
\* avoidance enabled
C4_Witness ==
    /\ lastCmd = Cmd(<<>>, "STOP_ALL", <<>>)
    /\ before.driving /\ before.pumping /\ before.avoiding
    /\ AllHalted /\ Len(out) > 0 /\ out[Len(out)] = Msg("DONE")

Ramped(old, new, target) ==
    /\ Abs(new - old) <= MOTOR_ACCEL_STEP
    /\ (old <= target => new <= target)
    /\ (old >= target => new >= target)

\* C5: a call of update() changes each side's current speed by at most the
\* step of 5 and never takes it across the target speed
C5_RampStep ==
    [][Update => /\ Ramped(currentSpeedL, currentSpeedL', targetSpeed)
                 /\ Ramped(currentSpeedR, currentSpeedR', targetSpeed)]_vars

\* update() has just ended a ramp on a target less than a full step away
C5_Witness ==
    /\ lastAccelTime = now /\ direction # 0
    /\ currentSpeedL = targetSpeed /\ currentSpeedR = targetSpeed
    /\ targetSpeed % MOTOR_ACCEL_STEP # 0

\* C14: once the operations have ended with the direction at 0, update()
\* being called on, both current speeds reach 0 and stay there
C14_SettlesAtZero ==
    /\ (direction = 0 /\ budget = 0) ~> (currentSpeedL = 0 /\ currentSpeedR = 0)
    /\ [][direction = 0 /\ budget = 0 /\ currentSpeedL = 0 /\ currentSpeedR = 0
             => currentSpeedL' = 0 /\ currentSpeedR' = 0]_vars

\* PWM level on a side's bridge
AppliedL == Max(pin["L_IN1"], pin["L_IN2"])

AppliedR == Max(pin["R_IN3"], pin["R_IN4"])

\* C15: after stop() the PWM applied to each side comes down by at most the
\* step of 5 per effective update(), and reaches 0
C15_GracefulStop ==
    /\ [][UpdateDue /\ lastCall = "stop"
             => /\ AppliedL - AppliedL' <= MOTOR_ACCEL_STEP
                /\ AppliedR - AppliedR' <= MOTOR_ACCEL_STEP]_vars
    /\ (lastCall = "stop" /\ budget = 0) ~> (AppliedL = 0 /\ AppliedR = 0)

IsSetSpeed(c) == startsWith(c, <<"MOVE_SET_SPEED">>)

SetSpeedFrame == <<currentSpeedL, currentSpeedR, trimOffset, pin>>

\* MOVE_SET_SPEED as stated: nothing but the target speed changes
C17_TargetSpeedOnly ==
    [][\A line \in Commands :
          IsSetSpeed(trim(line)) /\ Processes(line)
              => UNCHANGED <<direction, SetSpeedFrame>>]_vars

\* C17: MOVE_SET_SPEED:s sets the target speed to s within 0..255 and leaves
\* both current speeds, the trim and every pin as they are; the direction
\* stays too, except that a stopped drive given a speed above 0 is set forward
C17_SetSpeedFrame ==
    [][\A line \in Commands :
          IsSetSpeed(trim(line)) /\ Processes(line)
              => /\ targetSpeed' = constrain(parseInt(trim(line)), 0, 255)
                 /\ UNCHANGED SetSpeedFrame
                 /\ direction' = IF direction = 0 /\ parseInt(trim(line)) > 0
                                 THEN 1 ELSE direction]_vars

\* MOVE_SET_SPEED has been processed while the drive was running backward
C17_Witness ==
    /\ IsSetSpeed(lastCmd) /\ out = <<Msg("DONE")>>
    /\ direction = -1 /\ targetSpeed = 200 /\ currentSpeedL = MOTOR_ACCEL_STEP
    /\ pin["L_IN2"] # 0 /\ pin["R_IN4"] # 0

----------------------------------------------------------------------------
\* Properties of the closed-loop Z move

IsZMove(c) == startsWith(c, <<"Z_MOVE">>)

\* the requested target of Z_MOVE:<cm>, in nanometres
ZTargetNM(c) == parseTime(c) * 10000

ToleranceNM == MOTOR_Z_POSITION_TOLERANCE * NM_PER_MM

ZStopped == pin["Z_IN1"] = 0 /\ pin["Z_IN2"] = 0

\* some encoder count lies within the tolerance of the target
Reachable(t) ==
    LET n == Abs(t) \div MM_PER_PULSE_NM + 1
    IN  \E k \in -n..n : Abs(t - k * MM_PER_PULSE_NM) <= ToleranceNM

MoveFailed == <<Msg("ERROR:Move failed or timeout"), Msg("DONE")>>

\* a Z_MOVE has returned whose encoder stood still outside the tolerance
StuckMoveDone ==
    /\ pc = "idle" /\ IsZMove(lastCmd) /\ encMode = "stuck"
    /\ Abs(ZTargetNM(lastCmd) - getPositionNM(World)) > ToleranceNM

\* C6: with encoder mode on and an encoder standing still outside the
\* tolerance, Z_MOVE terminates, answers ERROR:Move failed or timeout then
\* DONE, leaves the Z pins at 0, and returns at the first sample after the
\* 10 s budget: more than 10000 ms and at most one 10 ms delay beyond
C6_StuckTimeout ==
    /\ [](StuckMoveDone
            => /\ Response(out) = MoveFailed
               /\ ZStopped
               /\ elapsedAtEnd[1] = 0
               /\ elapsedAtEnd[2] > MOTOR_Z_TIMEOUT_MS
               /\ elapsedAtEnd[2] <= MOTOR_Z_TIMEOUT_MS + MoveToCMDelay)
    /\ ((pc # "idle" /\ encMode = "stuck") ~> pc = "idle")

\* a stuck move has timed out across the wrap of millis()
C6_Witness ==
    /\ StuckMoveDone /\ Response(out) = MoveFailed
    /\ ClockLess(now, MOTOR_Z_TIMEOUT_MS) /\ elapsedAtEnd[2] > MOTOR_Z_TIMEOUT_MS

\* a Z_MOVE to a reachable target has returned under the ideal encoder
IdealMoveDone ==
    pc = "idle" /\ IsZMove(lastCmd) /\ encMode = "ideal" /\ Reachable(ZTargetNM(lastCmd))

IdealMoveEnds == (pc # "idle" /\ encMode = "ideal" /\ Reachable(targetNM)) ~> pc = "idle"

\* C7 as stated: with encoder mode on, a reachable target and an ideal
\* encoder, Z_MOVE terminates within the 10 s budget with the Z pins at 0
\* and answers POS:<p>, p within 0.2 cm of the target, then DONE
C7_PrintedWithinTolerance ==
    /\ [](IdealMoveDone
            => /\ ZStopped
               /\ ~ClockGreater(elapsedAtEnd, MOTOR_Z_TIMEOUT_MS)
               /\ Len(Response(out)) = 2
               /\ Response(out)[1].t = "POS:"
               /\ Abs(Response(out)[1].v[1] * 100000 - ZTargetNM(lastCmd)) <= ToleranceNM
               /\ Response(out)[2] = Msg("DONE"))
    /\ IdealMoveEnds

\* C7: with encoder mode on, a reachable target and an ideal encoder, Z_MOVE
\* terminates within the 10 s budget with the Z pins at 0 and the position
\* within 0.2 cm of the target, and answers POS:<p>, p that position rounded
\* to two decimals (within 0.205 cm of the target), then DONE
C7_ReachesTarget ==
    /\ [](IdealMoveDone
            => /\ ZStopped
               /\ ~ClockGreater(elapsedAtEnd, MOTOR_Z_TIMEOUT_MS)
               /\ Abs(getPositionNM(World) - ZTargetNM(lastCmd)) <= ToleranceNM
               /\ Response(out) = <<Val("POS:", Print2(getPositionNM(World))), Msg("DONE")>>
               /\ Abs(Response(out)[1].v[1] * 100000 - ZTargetNM(lastCmd))
                     <= ToleranceNM + 50000)
    /\ IdealMoveEnds

\* a move has reached 1.0 cm by driving forward
C7_Witness ==
    /\ IdealMoveDone /\ zRan /\ pulseCount = 2
    /\ lastCmd = Cmd(<<"Z_MOVE">>, "", <<"1", ".", "0">>)
    /\ Response(out) = <<Val("POS:", 94), Msg("DONE")>>

\* C8: with encoder mode off, Z_MOVE fails at once for every target (no Z
\* pin energized, no time spent, ERROR:Move failed or timeout then DONE);
\* Z_ENC_OFF and Z_ENC_ON switch the mode, and with the mode on a Z_MOVE
\* enters the closed loop again
C8_EncoderModeGate ==
    [][/\ \A line \in ZCommands :
            IsZMove(trim(line)) /\ ProcessesZ(line)
                => IF encoderEnabled
                   THEN pc' = "z_sample" /\ targetNM' = ZTargetNM(trim(line))
                   ELSE /\ pc' = "idle" /\ now' = now /\ ~zRan' /\ pin' = pin
                        /\ ZStopped' /\ Response(out') = MoveFailed
       /\ ProcessesZ(Cmd(<<>>, "Z_ENC_OFF", <<>>)) => ~encoderEnabled'
       /\ ProcessesZ(Cmd(<<>>, "Z_ENC_ON", <<>>)) => encoderEnabled']_vars

\* a Z_MOVE has been refused with encoder mode off
C8_Witness ==
    /\ pc = "idle" /\ IsZMove(lastCmd) /\ ~encoderEnabled /\ ~zRan /\ ZStopped
    /\ Response(out) = MoveFailed

ZHome == Cmd(<<>>, "Z_HOME", <<>>)

HomeReset == Msg("[Motor Z] Position reset to 0 (HOME)")

\* the handler of Z_HOME has returned: DONE is the whole response, Z is off
HomeAnswered ==
    pc' = "idle" /\ Response(out') = <<Msg("DONE")>> /\ ZStopped'

HomeResets == pulseCount' = 0 /\ \E i \in DOMAIN out' : out'[i] = HomeReset

HomeKeepsCount == pulseCount' = pulseCount /\ \A i \in DOMAIN out' : out'[i] # HomeReset

\* C18: Z_HOME moves to 0 in closed loop and terminates; it returns with DONE
\* as its only response and the Z pins at 0; the encoder count is zeroed when
\* the move reached 0 within the tolerance, and is left as it is when encoder
\* mode is off or the move timed out
C18_Home ==
    /\ [][/\ ProcessesZ(ZHome)
               => IF encoderEnabled
                  THEN pc' = "z_sample" /\ targetNM' = 0 /\ Response(out') = <<>>
                  ELSE HomeAnswered /\ HomeKeepsCount
          /\ MoveToCM_Sample /\ caller = "Z_HOME" /\ pc' = "idle"
               => /\ HomeAnswered
                  /\ IF Abs(getPositionNM(World)) <= ToleranceNM
                     THEN HomeResets ELSE HomeKeepsCount
          /\ MoveToCM_Sample /\ caller = "Z_HOME" /\ pc' # "idle"
               => IF getPositionNM(World) > 0
                  THEN pin'["Z_IN1"] = 0 /\ pin'["Z_IN2"] # 0
                  ELSE pin'["Z_IN1"] # 0 /\ pin'["Z_IN2"] = 0]_vars
    /\ (caller = "Z_HOME" ~> pc = "idle")

\* Z_HOME has timed out away from 0 and left the count alone
C18_Witness ==
    /\ pc = "idle" /\ lastCmd = ZHome /\ Response(out) = <<Msg("DONE")>>
    /\ ClockGreater(elapsedAtEnd, MOTOR_Z_TIMEOUT_MS)
    /\ pulseCount # 0 /\ ZStopped

----------------------------------------------------------------------------
\* Properties of the encoder

InBracket == pc \in {"enc_lo", "enc_hi", "enc_end"}

\* C9: whatever the interleaving with the interrupt service routine,
\* getPosition returns a value the counter held during the call, the service
\* routine never runs between noInterrupts() and interrupts(), and when
\* reset or setPosition has written both halves the counter is the value written
C9_AtomicAccess ==
    /\ InBracket => Cardinality(heldValues) = 1
    /\ (pc = "enc_ret" /\ encOp = "get") => encRet \in heldValues
    /\ (pc = "enc_end" /\ encOp \in {"set", "reset"}) => pulseCount = encArg

\* getPosition has read both halves of 65535 while an edge waits for the
\* interrupt to be enabled again
C9_Witness ==
    /\ pc = "enc_end" /\ encOp = "get" /\ intPending /\ ~intEnabled
    /\ hiHalf * 65536 + loHalf = 65535 /\ pulseCount = 65535

\* C10: a getPosition with no edge during the call returns the value last
\* written (0 by reset, p by setPosition) plus the forward edges minus the
\* reverse edges since: N after reset and N forward edges, -N after N reverse
C10_EdgeCount ==
    (pc = "enc_ret" /\ encOp = "get" /\ edgesInDelay = 0)
        => encRet = base + fwdEdges - revEdges

\* after setPosition(65535), two forward edges and one reverse edge,
\* getPosition has returned 65536
C10_Witness ==
    /\ pc = "enc_ret" /\ encOp = "get" /\ edgesInDelay = 0
    /\ base = 65535 /\ fwdEdges = 2 /\ revEdges = 1 /\ encRet = 65536

----------------------------------------------------------------------------
\* Properties of the trim

TrimRange == -50..50

\* C11: for every v in -50..50, setTrim(v), saveTrim(), loadTrim() leaves the
\* trim at v, also when another trim is set without saving between the save
\* and the load; in every behaviour loadTrim restores the trim last saved
C11_TrimRoundTrip ==
    /\ [](\A v \in TrimRange :
            /\ loadTrim(saveTrim(setTrim(World, v))).trimOffset = v
            /\ \A u \in TrimInputs :
                  loadTrim(setTrim(saveTrim(setTrim(World, v)), u)).trimOffset = v)
    /\ [][LoadTrim /\ trimLog.saved # <<>> => trimOffset' = trimLog.saved[1]]_vars

\* loadTrim has brought back a saved -50 after another trim had been set
C11_Witness ==
    /\ trimLog.loaded /\ trimLog.changed /\ trimLog.saved = <<-50>>
    /\ trimOffset = -50 /\ eeprom = 0

----------------------------------------------------------------------------
\* Properties of the ultrasonic sensors and of obstacle avoidance

\* an echo of this width comes from closer than cm: width * 0.034 / 2 < cm,
\* no echo meaning out of range
CloserThan(width, cm) == width # 0 /\ width * 17 < cm * 1000

Classified(echo, cm) ==
    (IF CloserThan(echo.front, cm) THEN 1 ELSE 0) + (IF CloserThan(echo.right, cm) THEN 2 ELSE 0)

\* C12: US_CHECK answers OBSTACLE:k, k = 0 when neither fresh sample is below
\* 30 cm, 1 when only the front one is, 2 when only the right one is, 3 when
\* both are; a distance of exactly 30 cm is no obstacle
C12_UsCheck ==
    /\ [][\A echo \in SenseEchoes :
             ProcessesSense(Cmd(<<>>, "US_CHECK", <<>>), echo)
                 => out' = <<Val("OBSTACLE:", Classified(echo, 30))>>]_vars
    /\ [](~hasObstacle(30 * 1000))

\* US_CHECK has answered 1 for front 20 cm, right 50 cm
C12_Witness ==
    /\ lastCmd = Cmd(<<>>, "US_CHECK", <<>>) /\ out = <<Val("OBSTACLE:", 1)>>
    /\ Print1(lastFront) = 200 /\ Print1(lastRight) = 500

----------------------------------------------------------------------------
\* Properties of the command protocol

QueryReply ==
    [MOVE_GET_SPEED |-> "SPEED:", Z_POS |-> "POS:", US_GET_DIST |-> "DIST:",
     US_CHECK |-> "OBSTACLE:", TRIM_GET |-> "TRIM:", STATUS |-> "OK", PING |-> "PONG"]

IsQuery(c) == c.segs = <<>> /\ c.num = <<>> /\ c.word \in DOMAIN QueryReply

IsAction(c) == c \in {trim(line) : line \in RecognisedCommands} /\ ~IsQuery(c)

Dones(o) == {i \in DOMAIN o : o[i] = Msg("DONE")}

\* C13: the output of an action command ends with DONE, its one and only
\* DONE, sent when the handler returns; a query command answers with its
\* value line and no DONE; ERROR:Unknown command and DONE never come together
C13_Acknowledgement ==
    /\ pc # "idle" => Dones(out) = {}
    /\ pc = "idle" /\ IsAction(lastCmd) => Dones(out) = {Len(out)}
    /\ pc = "idle" /\ IsQuery(lastCmd)
          => /\ Dones(out) = {}
             /\ Len(Response(out)) = 1 /\ Response(out)[1].t = QueryReply[lastCmd.word]
    /\ ~(Dones(out) # {} /\ \E i \in DOMAIN out : out[i].t = "ERROR:Unknown command: ")

\* a Z move has timed out and reported the failure before its DONE
C13_Witness ==
    /\ pc = "idle" /\ IsAction(lastCmd) /\ startsWith(lastCmd, <<"Z_MOVE">>)
    /\ Response(out) = <<Msg("ERROR:Move failed or timeout"), Msg("DONE")>>

IsTimedZ(c) == startsWith(c, <<"ACT", "Z_OUT">>) \/ startsWith(c, <<"ACT", "Z_IN">>)

\* the Z bridge is driven outward, or inward, at MOTOR_Z_SPEED
ZDriven(p, outward) ==
    IF outward THEN p["Z_IN1"] = MOTOR_Z_SPEED /\ p["Z_IN2"] = 0
    ELSE p["Z_IN1"] = 0 /\ p["Z_IN2"] = MOTOR_Z_SPEED

\* C19: ACT:Z_OUT:<sec> (ACT:Z_IN:<sec>) drives Z outward (inward) and blocks;
\* while it blocks no command is processed and nothing is answered; it
\* returns <sec> after it began, and only then are the Z pins at 0 and DONE sent
C19_TimedZ ==
    /\ [][/\ pc = "idle" /\ IsTimedZ(lastCmd')
               /\ (\E mode \in EncoderModes, echo \in ProtoEchoes :
                      ProcessesAny(lastCmd', mode, echo))
               => /\ pc' = "delay" /\ now' = now /\ Dones(out') = {}
                  /\ ZDriven(pin', startsWith(lastCmd', <<"ACT", "Z_OUT">>))
          /\ pc = "delay" /\ IsTimedZ(lastCmd)
               => /\ DelayReturns /\ lastCmd' = lastCmd
                  /\ now' = ClockAdd(now, parseTime(lastCmd))
                  /\ pc' = "idle" /\ ZStopped' /\ out' = <<Msg("DONE")>>]_vars
    /\ ((pc = "delay" /\ IsTimedZ(lastCmd)) ~> (pc = "idle" /\ Dones(out) # {}))

\* ACT:Z_IN:1.5 has returned after 1500 ms
C19_Witness ==
    /\ pc = "idle" /\ lastCmd = Cmd(<<"ACT", "Z_IN">>, "", <<"1", ".", "5">>)
    /\ now = <<0, 1500>> /\ zRan /\ ZStopped /\ out = <<Msg("DONE")>>

IsMalformed(c) == c \in MalformedCommands

\* the digits a text begins with
LeadingDigits(t) ==
    LET n == CHOOSE k \in 0..Len(t) :
                 /\ \A i \in 1..k : IsDigit(t[i])
                 /\ k = Len(t) \/ ~IsDigit(t[k + 1])
    IN  SubSeq(t, 1, n)

\* the world with the fields that name the command, or belong to the model's
\* bookkeeping, blanked
Effect(w) == [w EXCEPT !.lastCmd = EmptyText, !.budget = 0, !.encMode = "none"]

\* the step is what processing the same pattern with argument text t does
ProcessedAs(t) ==
    \E mode \in EncoderModes, echo \in ProtoEchoes :
        /\ ProcessesAny(lastCmd', mode, echo)
        /\ Effect(World') = Effect(processCommand([World EXCEPT !.encMode = mode],
                                                  [lastCmd' EXCEPT !.num = t], echo))

NoError(o) == \A i \in DOMAIN o : o[i].t \notin {"ERROR:Unknown command: ",
                                                 "ERROR:Move failed or timeout"}

DetectedLine(k) ==
    CASE k = 1 -> Msg("[Obstacle] Detected: FRONT - Backing up and turning left")
      [] k = 2 -> Msg("[Obstacle] Detected: RIGHT - Turning left")
      [] k = 3 -> Msg("[Obstacle] Detected: FRONT+RIGHT - Backing up, turning left")

\* C16: a check that is due takes the front and right samples as obstacles
\* exactly when they are below the threshold set by AVOID_SET
C16_ThresholdUsed ==
    [][\A echo \in SenseEchoes :
          CheckAndAvoidOn(echo) /\ CheckDue
              => LET k == Classified(echo, thresholdCm)
                 IN  IF k = 0 THEN out' = <<>>
                     ELSE out' # <<>> /\ out'[1] = DetectedLine(k)]_vars

----------------------------------------------------------------------------
\* Properties of the avoidance manoeuvres

\* what a due check makes of the fresh samples
Detects(echo) == checkObstacles(World, echo).obstacle

\* both sides under reverse power, both under no power, left reverse and right forward
Reversing(p) == p["L_IN1"] = 0 /\ p["L_IN2"] > 0 /\ p["R_IN3"] = 0 /\ p["R_IN4"] > 0

Unpowered(p) == \A n \in DrivePins : p[n] = 0

RotatingLeft(p) == p["L_IN1"] = 0 /\ p["L_IN2"] > 0 /\ p["R_IN3"] > 0 /\ p["R_IN4"] = 0

\* C21: a due check that detects a front or front+right obstacle holds the
\* wheels in reverse for the 300 ms phase, in a left rotation (left reverse,
\* right forward) for the 500 ms phase, and leaves every drive pin at 0 when
\* it returns
C21_FrontManoeuvre ==
    [][\A echo \in AvoidEchoes :
          Checks(echo) /\ CheckDue /\ Detects(echo) \in {1, 3}
              => /\ [i \in 1..Len(phases') |-> phases'[i].ms]
                        = <<100, AVOID_BACKUP_DURATION_MS, 100, AVOID_TURN_DURATION_MS>>
                 /\ Reversing(phases'[2].pin)
                 /\ RotatingLeft(phases'[4].pin)
                 /\ Unpowered(pin')]_vars

\* both sides under forward power, the left one under less
CurvingLeft(p) ==
    /\ p["L_IN2"] = 0 /\ p["R_IN4"] = 0
    /\ p["L_IN1"] > 0 /\ p["L_IN1"] < p["R_IN3"]

\* C22: a due check that detects a right-only obstacle pauses for 100 ms,
\* curves left for half the turn duration (250 ms) and returns true with the
\* direction forward and the default target speed, whatever the drive state was
C22_RightManoeuvre ==
    [][\A echo \in AvoidEchoes :
          Checks(echo) /\ CheckDue /\ Detects(echo) = 2
              => /\ [i \in 1..Len(phases') |-> phases'[i].ms] = <<100, 250>>
                 /\ CurvingLeft(phases'[2].pin)
                 /\ direction' = 1 /\ targetSpeed' = MOTOR_DEFAULT_SPEED
                 /\ checkAndAvoid(Fresh, echo).avoided]_vars

\* the right-only manoeuvre has run on a drive that was ramping backward:
\* the reverse pins were still powered through the pause
C22_Witness ==
    /\ lastCall = "checkAndAvoid" /\ Len(phases) = 2
    /\ lastCmd = Cmd(<<>>, "DRIVE_BW", <<>>)
    /\ phases[1].pin["L_IN2"] > 0 /\ phases[1].pin["R_IN4"] > 0
    /\ direction = 1 /\ targetSpeed = MOTOR_DEFAULT_SPEED

\* everything checkAndAvoid could touch: drive, pins, sensors, avoidance, clock
AvoidFrame ==
    <<direction, targetSpeed, currentSpeedL, currentSpeedR, trimOffset, lastAccelTime, pin,
      lastFront, lastRight, lastY, enabled, thresholdCm, lastCheckTime, now, pumpIsOn,
      buzzerIsOn, moving, lastCmd, pc>>

\* C23: a checkAndAvoid call made while avoidance is disabled, or less than
\* 100 ms after the last check that passed the rate limit, returns false and
\* changes nothing (no sample taken, no drive state, pin, output line or
\* last-check time changed); avoidance is disabled at start, AVOID_OFF and
\* STOP_ALL disable it, and only AVOID_ON enables it
C23_RateLimit ==
    /\ ~enabled
    /\ [][\A echo \in AvoidEchoes :
             Checks(echo) /\ ~CheckDue
                 => /\ UNCHANGED AvoidFrame
                    /\ out' = <<>> /\ phases' = <<>>
                    /\ ~checkAndAvoid(Fresh, echo).avoided]_vars
    /\ [][/\ ProcessesAvoid(Cmd(<<>>, "AVOID_OFF", <<>>)) => ~enabled'
          /\ ProcessesAvoid(Cmd(<<>>, "STOP_ALL", <<>>)) => ~enabled'
          /\ (~enabled /\ enabled') => ProcessesAvoid(Cmd(<<>>, "AVOID_ON", <<>>))]_vars

\* a call has been skipped 20 ms after a check that passed, with avoidance on
\* and the drive ramping forward
C23_Witness ==
    /\ lastCall = "checkAndAvoid" /\ enabled
    /\ lastCheckTime # <<0, 0>> /\ ClockDiff(now, lastCheckTime) = <<0, MOTOR_ACCEL_DELAY>>
    /\ out = <<>> /\ direction = 1 /\ pin["L_IN1"] > 0

\* C24: a due check on which neither sample is below 30 cm returns false and
\* leaves direction, target speed, both current speeds and every PWM output
\* as they were, and prints no line
C24_NoObstacle ==
    [][\A echo \in AvoidEchoes :
          Checks(echo) /\ CheckDue /\ Classified(echo, OBSTACLE_THRESHOLD_CM) = 0
              => /\ UNCHANGED <<direction, targetSpeed, currentSpeedL, currentSpeedR, pin>>
                 /\ out' = <<>> /\ phases' = <<>>
                 /\ ~checkAndAvoid(Fresh, echo).avoided]_vars

\* a due check has found both samples at 50 cm while the drive ramps forward
C24_Witness ==
    /\ lastCall = "checkAndAvoid" /\ enabled /\ lastCheckTime = now
    /\ Print1(lastFront) = 500 /\ Print1(lastRight) = 500
    /\ direction = 1 /\ currentSpeedL > 0 /\ pin["L_IN1"] > 0 /\ out = <<>>

\* C25: an echo of zero duration reads as 999 cm on every channel and is never
\* an obstacle: a due check with the front echo timed out reports no FRONT
\* class, with the right one timed out no RIGHT class, and with both timed out
\* it runs no manoeuvre and returns false
C25_TimeoutSentinel ==
    /\ [](/\ getFrontDistance(World, NoEcho).lastFront = 999 * 1000
          /\ getRightDistance(World, NoEcho).lastRight = 999 * 1000
          /\ getYDistance(World, NoEcho).lastY = 999 * 1000)
    /\ [][\A echo \in AvoidEchoes :
             Checks(echo) /\ CheckDue
                 => /\ echo.front = 0
                        => lastFront' = 999 * 1000
                           /\ (out' = <<>> \/ out'[1] = DetectedLine(2))
                    /\ echo.right = 0
                        => lastRight' = 999 * 1000
                           /\ (out' = <<>> \/ out'[1] = DetectedLine(1))
                    /\ (echo.front = 0 /\ echo.right = 0)
                        => /\ out' = <<>> /\ phases' = <<>>
                           /\ UNCHANGED <<direction, targetSpeed, currentSpeedL,
                                          currentSpeedR, pin>>
                           /\ ~checkAndAvoid(Fresh, echo).avoided]_vars

\* a due check has run with both echoes timed out while the drive ramps forward
C25_Witness ==
    /\ lastCall = "checkAndAvoid" /\ enabled /\ lastCheckTime = now
    /\ lastFront = 999 * 1000 /\ lastRight = 999 * 1000
    /\ direction = 1 /\ pin["L_IN1"] > 0 /\ out = <<>> /\ phases = <<>>

----------------------------------------------------------------------------
\* Properties of the ramp's output and of its rate limit

\* update() called when the ramp interval has passed
RampStep == Update /\ ~ClockLess(ClockDiff(now, lastAccelTime), MOTOR_ACCEL_DELAY)

\* the two pins of one side carry the signed speed s: its magnitude, at most
\* 255, on the pin of its sign and 0 on the other
Carries(p, fwd, rev, s) ==
    /\ p[fwd] = (IF s > 0 THEN Min(s, 255) ELSE 0)
    /\ p[rev] = (IF s < 0 THEN Min(-s, 255) ELSE 0)

\* C26: after an effective ramp step the left pins carry
\* (currentSpeedL + trim if trim < 0) * direction and the right pins carry
\* (currentSpeedR - trim if trim > 0) * direction, as a magnitude limited to
\* 0..255 on the pin matching the sign
C26_TrimThenDirection ==
    [][RampStep
          => LET t == trimOffset'
                 sL == (IF t < 0 THEN currentSpeedL' + t ELSE currentSpeedL') * direction'
                 sR == (IF t > 0 THEN currentSpeedR' - t ELSE currentSpeedR') * direction'
             IN  /\ Carries(pin', "L_IN1", "L_IN2", sL)
                 /\ Carries(pin', "R_IN3", "R_IN4", sR)]_vars

\* backward at speed 10 with a trim of 10: the right side carries
\* (10 - 10) * -1 = 0 and the left side 10 in reverse
C26_Witness ==
    /\ direction = -1 /\ trimOffset = 10 /\ lastAccelTime = now
    /\ currentSpeedL = 10 /\ currentSpeedR = 10
    /\ pin["L_IN2"] = 10 /\ pin["R_IN3"] = 0 /\ pin["R_IN4"] = 0

\* C27: an effective ramp step writes 0 to both reverse pins while the
\* direction is forward, and 0 to both forward pins while it is backward
C27_NeverReverses ==
    [][RampStep
          => /\ direction' = 1 => pin'["L_IN2"] = 0 /\ pin'["R_IN4"] = 0
             /\ direction' = -1 => pin'["L_IN1"] = 0 /\ pin'["R_IN3"] = 0]_vars

\* setSpeed(s) called directly
SetsSpeed(s) == \E w \in {setSpeed(Fresh, s)} : Commit(w)

\* C28: setSpeed(s) sets the target speed to s limited to 0..255 and leaves
\* the direction as it was, except that a stopped drive given s > 0 becomes
\* forward
C28_SetSpeed ==
    [][\A s \in SpeedArgs :
          SetsSpeed(s)
              => /\ targetSpeed' = (IF s < 0 THEN 0 ELSE IF s > 255 THEN 255 ELSE s)
                 /\ direction' = (IF direction = 0 /\ s > 0 THEN 1 ELSE direction)]_vars

\* setSpeed(300) has been called on a drive going backward
C28_Witness == direction = -1 /\ targetSpeed = 255

\* C29: the direction is -1, 0 or 1, the target speed and both current
\* speeds are in 0..255, the trim is in -50..50 and every drive pin holds a
\* value in 0..255
C29_Ranges ==
    /\ direction \in {-1, 0, 1}
    /\ targetSpeed \in 0..255 /\ currentSpeedL \in 0..255 /\ currentSpeedR \in 0..255
    /\ trimOffset \in -50..50
    /\ \A p \in DrivePins : pin[p] \in 0..255

\* TRIM_SET:-60 and MOVE_SET_SPEED:300 have been limited to -50 and 255, and
\* the ramp has reached the target: left 255 - 50, right 255
C29_Witness ==
    /\ trimOffset = -50 /\ targetSpeed = 255 /\ direction = 1
    /\ currentSpeedL = 255 /\ currentSpeedR = 255
    /\ pin["L_IN1"] = 205 /\ pin["R_IN3"] = 255

\* milliseconds since the last effective ramp step, counted on the clock as it
\* advances (and wraps) rather than by subtraction
SinceLastStep == {e \in 0..MaxDriveTime : ClockAdd(lastAccelTime, e) = now}

TooSoon == \E e \in SinceLastStep : e < MOTOR_ACCEL_DELAY

\* C30: an update() call less than 20 ms after the last effective ramp step
\* changes nothing, and one made 20 ms or more after it is effective;
\* lastAccelTime changes only in an effective step, to the time of that step:
\* two effective steps are at least 20 ms apart, across the wrap of the
\* 32-bit clock as well
C30_RateLimit ==
    /\ [](IF TooSoon THEN update(World) = World ELSE update(World).lastAccelTime = now)
    /\ [][/\ Update /\ TooSoon => UNCHANGED vars
          /\ lastAccelTime' # lastAccelTime => Update /\ ~TooSoon /\ lastAccelTime' = now]_vars

\* the clock has wrapped 10 ms after an effective step: an update() is too soon
C30_Witness ==
    /\ lastAccelTime = <<65535, 65526>> /\ now = <<0, 0>> /\ TooSoon
    /\ direction = 1 /\ currentSpeedL > 0

----------------------------------------------------------------------------
\* Properties of the turn primitives and of the stops

\* the four drive pins hold these levels
Levels(p, l1, l2, r3, r4) ==
    p["L_IN1"] = l1 /\ p["L_IN2"] = l2 /\ p["R_IN3"] = r3 /\ p["R_IN4"] = r4

TurnCalls == {"turnLeft", "turnRight", "curveLeft", "curveRight"}

\* C31: a turn or curve primitive sets its wheel outputs (turnLeft: left
\* reverse 50, right forward 50; turnRight mirrored; curveLeft: left forward
\* 33, right forward 100; curveRight mirrored), and the update() calls of
\* the idle loop that follow it leave those outputs as they are
C31_TurnPersists ==
    [][/\ Calls([name |-> "turnLeft", arg |-> 0]) => Levels(pin', 0, 50, 50, 0)
       /\ Calls([name |-> "turnRight", arg |-> 0]) => Levels(pin', 50, 0, 0, 50)
       /\ Calls([name |-> "curveLeft", arg |-> 0]) => Levels(pin', 33, 0, 100, 0)
       /\ Calls([name |-> "curveRight", arg |-> 0]) => Levels(pin', 100, 0, 33, 0)
       /\ UpdateDue /\ lastCall \in TurnCalls => pin' = pin]_vars

\* commands that select a direction, a speed above 0, or a turn or curve
SelectsMotion(c) ==
    \/ \E v \in {"MOVE_FORWARD", "MOVE_BACKWARD", "DRIVE_FW", "DRIVE_BW", "TURN_LEFT",
                 "TURN_RIGHT", "CURVE_LEFT", "CURVE_RIGHT"} : Is(c, <<>>, v)
    \/ \E v \in {"MOVE_FW", "MOVE_BW", "MOVE_SET_SPEED", "DRIVE_SPEED", "MOVE_X"} :
          startsWith(c, <<v>>)

\* a step of the idle loop, or the processing of a command that selects no motion
KeepsStill ==
    \/ Update \/ Tick \/ DelayEnd
    \/ \E line \in Commands : ~SelectsMotion(trim(line)) /\ Processes(line)

\* C32: DRIVE_ESTOP and STOP_ALL leave the four drive pins and both current
\* speeds at 0, and from then on every update() call, passing of time and
\* command that selects no motion keeps them at 0
C32_StaysStopped ==
    [][/\ \A v \in {"DRIVE_ESTOP", "STOP_ALL"} : Processes(Cmd(<<>>, v, <<>>)) => DriveHalted'
       /\ DriveHalted /\ KeepsStill => DriveHalted']_vars

\* an effective update() has run 20 ms after DRIVE_ESTOP, with a trim of -50
C32_Witness ==
    /\ lastCmd = Cmd(<<>>, "DRIVE_ESTOP", <<>>) /\ pc = "idle"
    /\ now = <<0, 20>> /\ lastAccelTime = now /\ trimOffset = -50 /\ DriveHalted

----------------------------------------------------------------------------
\* Properties of the Y axis height seek

YStopped == pin["Y_IN1"] = 0 /\ pin["Y_IN2"] = 0 /\ ~moving

\* C33: moveToHeight takes at most 50 samples and then returns, on every
\* sequence of readings; it returns with the Y actuator stopped (both pins 0,
\* moving false); a pass whose reading is more than 2 cm below the target
\* drives up, one whose reading is more than 2 cm above drives down, and one
\* within 2 cm returns
C33_MoveToHeight ==
    /\ [](attempts \in 0..maxAttempts)
    /\ (pc = "y_sample") ~> (pc = "idle" /\ YStopped)
    /\ [][/\ \A echo \in HeightEchoes :
               SamplesHeight(echo)
                   => /\ attempts < maxAttempts
                      /\ IF lastY' < targetHeight - HeightTolerance
                         THEN /\ pin'["Y_IN1"] = MOTOR_Y_SPEED /\ pin'["Y_IN2"] = 0
                              /\ pc' = "y_sample" /\ attempts' = attempts + 1
                         ELSE IF lastY' > targetHeight + HeightTolerance
                         THEN /\ pin'["Y_IN1"] = 0 /\ pin'["Y_IN2"] = MOTOR_Y_SPEED
                              /\ pc' = "y_sample" /\ attempts' = attempts + 1
                         ELSE pc' = "idle"
          /\ pc = "y_sample" /\ pc' # "y_sample" => pc' = "idle" /\ YStopped']_vars

\* the move has given up after 50 samples, the last of them out of range
C33_Witness ==
    /\ pc = "idle" /\ attempts = maxAttempts /\ lastY = 999 * 1000 /\ YStopped
    /\ out = <<Msg("[Motor Y] Timeout - target not reached")>>

\* the error of the encoder-based move at the sample about to be taken
ZErrorNM == targetNM - getPositionNM(World)

ZForward == pin["Z_IN1"] = MOTOR_Z_SPEED /\ pin["Z_IN2"] = 0

ZBackward == pin["Z_IN1"] = 0 /\ pin["Z_IN2"] = MOTOR_Z_SPEED

\* C34: every pass of the encoder-based Z move that drives the actuator
\* drives it toward the target, forward exactly when target minus current
\* position is positive and backward otherwise, and it drives only while
\* the error exceeds 2 mm; a pass within 2 mm stops the pins and returns
\* success, so a move whose target is within 2 mm at its first sample ends
\* without a Z pin ever having been energized
C34_DrivesTowardTarget ==
    [][MoveToCM_Sample =>
          IF Abs(ZErrorNM) <= ToleranceNM
          THEN /\ pc' = "idle" /\ ZStopped' /\ zRan' = zRan
               /\ out' # MoveFailed
               /\ out'[Len(out')] = Msg("DONE")
          ELSE IF pc' = "z_delay"
          THEN /\ ZForward' <=> ZErrorNM > 0
               /\ ZBackward' <=> ZErrorNM <= 0
               /\ ZForward' \/ ZBackward'
          ELSE pc' = "idle" /\ ZStopped']_vars

\* a Z_MOVE issued where an earlier move left the actuator, within 2 mm of
\* its target, has succeeded without a Z pin being driven
C34_Witness ==
    /\ pc = "idle" /\ IsZMove(lastCmd) /\ encoderEnabled /\ pulseCount # 0
    /\ Abs(ZTargetNM(lastCmd) - getPositionNM(World)) <= ToleranceNM
    /\ ~zRan /\ ZStopped /\ out # MoveFailed /\ out[Len(out)] = Msg("DONE")

\* C35 as stated: for every target some integer pulse count lies within
\* 2 mm of it, so an encoder-based move under an ideal actuator comes within
\* the tolerance and never ends by the timeout
C35_ToleranceCoversPulse ==
    /\ (pc \in {"z_sample", "z_delay"} /\ encMode = "ideal") => Reachable(targetNM)
    /\ (pc = "idle" /\ IsZMove(lastCmd) /\ encMode = "ideal")
          => /\ Response(out) # MoveFailed
             /\ ~ClockGreater(elapsedAtEnd, MOTOR_Z_TIMEOUT_MS)

----------------------------------------------------------------------------
\* Timed commands with negative, zero and positive durations

MaxTimed == 2

TimedPatterns ==
    {<<"ACT", "Z_OUT">>, <<"ACT", "Z_IN">>, <<"Y_UP">>, <<"Y_DOWN">>, <<"ACT", "SPRAY">>}

\* -1.5 s, 0 s and 0.5 s
TimedArgs == {<<"-", "1", ".", "5">>, <<"0">>, <<"0", ".", "5">>}

TimedCommands == {Cmd(p, "", t) : p \in TimedPatterns, t \in TimedArgs}

\* the timed commands, the untimed ones of the pump, and the full Y strokes
ActuatorCommands ==
    TimedCommands
    \cup {Cmd(<<>>, v, <<>>) : v \in {"PUMP_ON", "PUMP_OFF", "STOP_ALL"}}
    \cup {Cmd(<<"ACT">>, v, <<>>) : v \in {"Y_UP", "Y_DOWN"}}

InitTimed ==
    /\ \E stored \in InitEeprom : InitWorld(<<0, 0>>, stored, 1, 1)
    /\ budget = MaxTimed

ProcessesTimed(line) ==
    /\ pc = "idle" /\ budget > 0
    /\ \E w \in {processCommand(World, line, NoEcho)} : Commit([w EXCEPT !.budget = @ - 1])

ProcessTimedCommand == \E line \in ActuatorCommands : ProcessesTimed(line)

NextTimed == ProcessTimedCommand \/ DelayReturns

SpecTimed == InitTimed /\ [][NextTimed]_vars

IsTimed(c) == \E p \in TimedPatterns : startsWith(c, p)

\* C36 as stated: a timed command with a negative duration blocks for 0 ms:
\* the clock reads the same when its delay() returns as when it began
C36_NegativeBlocksZero ==
    [][(DelayReturns /\ IsTimed(lastCmd) /\ parseTime(lastCmd) < 0) => now' = now]_vars

----------------------------------------------------------------------------
\* The pins of the four motor channels, write by write

MaxPinSteps == 3

Channels ==
    {<<"L_IN1", "L_IN2">>, <<"R_IN3", "R_IN4">>, <<"Z_IN1", "Z_IN2">>, <<"Y_IN1", "Y_IN2">>}

\* turns and drives in both directions, both timed Z and Y moves, and an
\* encoder-based move to a target between two counts
PinCommands ==
    {Cmd(<<>>, v, <<>>) : v \in {"TURN_LEFT", "TURN_RIGHT", "DRIVE_FW", "DRIVE_BW", "DRIVE_STOP"}}
    \cup {Cmd(<<"ACT", v>>, "", <<"0", ".", "5">>) : v \in {"Z_OUT", "Z_IN"}}
    \cup {Cmd(<<v>>, "", <<"0", ".", "5">>) : v \in {"Y_UP", "Y_DOWN"}}
    \cup {Cmd(<<"Z_MOVE">>, "", <<"0", ".", "7">>)}

\* echoes of the Y sensor at 10 cm and at 25 cm, below and above the target
PinEchoes == {[front |-> 0, y |-> e, right |-> 0] : e \in {588, 1470}}

InitPins ==
    /\ \E stored \in InitEeprom : InitWorld(<<0, 0>>, stored, 1, 1)
    /\ budget = MaxPinSteps

\* the state an operation starts from, with the history of the pins on: it
\* begins with the levels the operation finds
Logging == [World EXCEPT !.pinLog = [on |-> TRUE, seen |-> <<pin>>]]

\* the same for a call from the idle loop, with the serial history cleared
LoggingFresh == [Fresh EXCEPT !.pinLog = [on |-> TRUE, seen |-> <<pin>>]]

\* the encoder-based move is followed through as the first command only
ProcessesPins(line) ==
    /\ pc = "idle" /\ budget > 0
    /\ IsZMove(line) => budget = MaxPinSteps
    /\ \E w \in {processCommand([Logging EXCEPT !.encMode = "ideal"], line, NoEcho)} :
          Commit([w EXCEPT !.budget = @ - 1,
                           !.encMode = IF w.pc = "z_sample" THEN "ideal" ELSE "none"])

ProcessPinCommand == \E line \in PinCommands : ProcessesPins(line)

PinsDelayEnd ==
    /\ pc = "delay"
    /\ \E w \in {delayEnd(Logging)} : Commit(w)

PinsUpdate ==
    /\ pc = "idle" /\ UpdatePending
    /\ \E w \in {update(delay(LoggingFresh, MOTOR_ACCEL_DELAY))} :
          Commit([w EXCEPT !.budget = Max(0, @ - 1)])

PinsMoveToCM_Sample ==
    /\ pc = "z_sample"
    /\ \E w \in {moveToCM_sample(Logging)} : Commit(w)

PinsMoveToCM_Delay ==
    /\ pc = "z_delay"
    /\ \E w \in {moveToCM_delay(travel(Logging))} : Commit(w)

PinsMoveToHeight ==
    /\ pc = "idle" /\ budget > 0
    /\ \E w \in {moveToHeight(LoggingFresh, 15 * 1000)} : Commit([w EXCEPT !.budget = @ - 1])

PinsMoveToHeight_Sample ==
    /\ pc = "y_sample" /\ attempts < maxAttempts
    /\ \E echo \in PinEchoes : \E w \in {moveToHeight_sample(LoggingFresh, echo)} : Commit(w)

PinsMoveToHeight_Timeout ==
    /\ pc = "y_sample" /\ attempts >= maxAttempts
    /\ \E w \in {moveToHeight_timeout(LoggingFresh)} : Commit(w)

NextPins ==
    \/ ProcessPinCommand \/ PinsDelayEnd \/ PinsUpdate
    \/ PinsMoveToCM_Sample \/ PinsMoveToCM_Delay
    \/ PinsMoveToHeight \/ PinsMoveToHeight_Sample \/ PinsMoveToHeight_Timeout

SpecPins == InitPins /\ [][NextPins]_vars

\* at most one pin of each channel is nonzero in the levels p
OnePin(p) == \A ch \in Channels : p[ch[1]] = 0 \/ p[ch[2]] = 0

\* C37 as stated: in every state the firmware passes through, after each
\* single pin write as well as between operations, each channel has at most
\* one of its two pins nonzero
C37_NeverBothPins ==
    /\ OnePin(pin)
    /\ \A i \in DOMAIN pinLog.seen : OnePin(pinLog.seen[i])

\* C37: between operations each channel has at most one of its two pins
\* nonzero; within an operation both pins of a channel are nonzero only
\* after a write to the forward pin of a channel that was running in
\* reverse, and the next write sets that reverse pin to 0
C37_OnePinBetweenOperations ==
    /\ OnePin(pin)
    /\ \A i \in DOMAIN pinLog.seen : \A ch \in Channels :
          LET p == pinLog.seen[i]
          IN  (p[ch[1]] # 0 /\ p[ch[2]] # 0)
                 => /\ 1 < i /\ i < Len(pinLog.seen)
                    /\ pinLog.seen[i - 1][ch[1]] = 0
                    /\ pinLog.seen[i - 1][ch[2]] = p[ch[2]]
                    /\ pinLog.seen[i + 1] = [p EXCEPT ![ch[2]] = 0]

\* TURN_RIGHT has been processed while the pins held a left turn: the left
\* channel had both pins at 50 after the first write and ends forward
C37_Witness ==
    /\ pc = "idle" /\ lastCmd = Cmd(<<>>, "TURN_RIGHT", <<>>)
    /\ Len(pinLog.seen) > 2
    /\ pinLog.seen[2]["L_IN1"] # 0 /\ pinLog.seen[2]["L_IN2"] # 0
    /\ pin["L_IN1"] # 0 /\ pin["L_IN2"] = 0

IsSpray(c) == startsWith(c, <<"ACT", "SPRAY">>)

PumpOn == Cmd(<<>>, "PUMP_ON", <<>>)

\* the commands other than PUMP_ON that act on the pump, each leaving it off
TurnsPumpOff(c) ==
    IsSpray(c) \/ c \in {Cmd(<<>>, "PUMP_OFF", <<>>), Cmd(<<>>, "STOP_ALL", <<>>)}

RelayOn == pin["PUMP_RELAY"] # 0

StoredBytes == 0..255

\* the trim decoded from the stored byte b
Decoded(b) == IF b <= 100 THEN b - EEPROM_TRIM_BIAS ELSE 0

\* C39: loadTrim leaves the trim within -50..50 for every stored byte 0..255:
\* a byte of 0..100 decodes to the byte minus 50, any other byte gives 0, and
\* nothing is printed and nothing else of the state changes
C39_LoadTrim ==
    /\ [](\A b \in StoredBytes :
             LET w == [Fresh EXCEPT !.eeprom = b]
                 loaded == loadTrim(w)
             IN  /\ loaded.trimOffset = Decoded(b)
                 /\ loaded.trimOffset \in -50..50
                 /\ loaded = [w EXCEPT !.trimOffset = Decoded(b), !.trimLog.loaded = TRUE])
    /\ [][LoadTrim => /\ trimOffset' = Decoded(eeprom)
                      /\ trimOffset' \in -50..50
                      /\ out' = <<>> /\ eeprom' = eeprom]_vars

\* loadTrim has run on a cell holding 101, a byte outside 0..100
C39_Witness ==
    /\ trimLog.loaded /\ eeprom = 101 /\ trimOffset = 0 /\ out = <<>>

\* C40 as stated: the DIST: line printed after an avoidance manoeuvre lists
\* front, Y and right in this order, as the answer to US_GET_DIST does
C40_SameFieldOrder ==
    [][\A echo \in AvoidEchoes :
          Checks(echo) /\ CheckDue /\ Detects(echo) # 0
              => out'[Len(out')] = Line("DIST:", <<Print1(lastFront'), Print1(lastY'),
                                                   Print1(lastRight')>>, EmptyText)]_vars

====
